---------------------------- MODULE Spec2Model ----------------------------
(***************************************************************************)
(* Model of the phone-chat command interpreter and action dispatcher:      *)
(*   src/chat-phone.py    the interactive session loop                     *)
(*   src/test-command.py  the single-command harness                       *)
(*                                                                         *)
(* Python strings are TLA+ strings; every string operation the code uses   *)
(* (lower, strip, startswith, in, split) is computed character by          *)
(* character.  The module is kept in ASCII: each non-ASCII letter of the   *)
(* source is one reserved ASCII character that occurs in no other string   *)
(* of the model, so that equality and substring tests agree with the       *)
(* source's.                                                               *)
(***************************************************************************)
EXTENDS Integers, Sequences, FiniteSets, TLC

(***************************************************************************)
(* Letters outside ASCII (Vietnamese), one reserved character each.        *)
(***************************************************************************)
v_a_grave == "@"        \* U+00E0  a with grave
v_a_acute == "#"        \* U+00E1  a with acute
v_a_hook == "$"         \* U+1EA3  a with hook above
v_a_dot == "%"          \* U+1EA1  a with dot below
v_ab_acute == "&"       \* U+1EAF  a with breve and acute
v_ab_dot == "*"         \* U+1EB7  a with breve and dot below
v_ac_dot == "="         \* U+1EAD  a with circumflex and dot below
v_ec_acute == ";"       \* U+1EBF  e with circumflex and acute
v_ec_dot == ":"         \* U+1EC7  e with circumflex and dot below
v_i_grave == "<"        \* U+00EC  i with grave
v_i_acute == ">"        \* U+00ED  i with acute
v_o_acute == "["        \* U+00F3  o with acute
v_o_dot == "]"          \* U+1ECD  o with dot below
v_oc_grave == "{"       \* U+1ED3  o with circumflex and grave
v_d_stroke == "}"       \* U+0111  d with stroke
v_D_STROKE == "|"       \* U+0110  capital D with stroke
v_I_GRAVE == "~"        \* U+00CC  capital I with grave

(***************************************************************************)
(* Python str operations.                                                  *)
(***************************************************************************)
UpperChars == "ABCDEFGHIJKLMNOPQRSTUVWXYZ" \o v_D_STROKE \o v_I_GRAVE

LowerChars == "abcdefghijklmnopqrstuvwxyz" \o v_d_stroke \o v_i_grave

UpperSet == {SubSeq(UpperChars, i, i) : i \in 1..Len(UpperChars)}

\* the lower-case letter of each upper-case letter
LowerOf ==
  [c \in UpperSet |->
     LET i == CHOOSE j \in 1..Len(UpperChars) : SubSeq(UpperChars, j, j) = c
     IN  SubSeq(LowerChars, i, i)]

\* str.lower() of one character
LowerChar(c) == IF c \in UpperSet THEN LowerOf[c] ELSE c

RECURSIVE Lower(_)
\* str.lower()
Lower(s) == IF s = "" THEN "" ELSE LowerChar(Head(s)) \o Lower(Tail(s))

\* the characters str.strip() and str.split() treat as whitespace
IsSpace(c) == c \in {" ", "\t", "\n", "\r"}

RECURSIVE LStrip(_)
LStrip(s) == IF s # "" /\ IsSpace(Head(s)) THEN LStrip(Tail(s)) ELSE s

RECURSIVE RStrip(_)
RStrip(s) ==
  IF s # "" /\ IsSpace(SubSeq(s, Len(s), Len(s)))
    THEN RStrip(SubSeq(s, 1, Len(s) - 1))
    ELSE s

\* str.strip()
Strip(s) == RStrip(LStrip(s))

\* s.startswith(p)
StartsWith(s, p) == Len(s) >= Len(p) /\ SubSeq(s, 1, Len(p)) = p

\* Python's  sub in s  (the empty string is in every string)
Contains(s, sub) ==
  \E i \in 0..(Len(s) - Len(sub)) : SubSeq(s, i + 1, i + Len(sub)) = sub

\* position of the first occurrence of the one-character string c in s, 0 if none
FindChar(s, c) ==
  IF \E i \in 1..Len(s) : SubSeq(s, i, i) = c
    THEN CHOOSE i \in 1..Len(s) :
           /\ SubSeq(s, i, i) = c
           /\ \A j \in 1..(i - 1) : SubSeq(s, j, j) # c
    ELSE 0

\* s.split(sep)[0] for a one-character sep
SplitHead(s, sep) ==
  LET p == FindChar(s, sep) IN IF p = 0 THEN s ELSE SubSeq(s, 1, p - 1)

\* s.split(" ", 1)[1] if " " in s else ""
ArgAfterSpace(s) ==
  LET p == FindChar(s, " ") IN IF p = 0 THEN "" ELSE SubSeq(s, p + 1, Len(s))

RECURSIVE SplitWs(_)
\* s.split(): the maximal runs of non-whitespace characters, in order
SplitWs(s) ==
  LET t == LStrip(s) IN
    IF t = "" THEN << >>
    ELSE LET ends == {i \in 1..Len(t) : IsSpace(SubSeq(t, i, i))}
             e == IF ends = {} THEN Len(t) + 1
                  ELSE CHOOSE i \in ends : \A j \in ends : i <= j
         IN  <<SubSeq(t, 1, e - 1)>> \o SplitWs(SubSeq(t, e, Len(t)))

Digits == "0123456789"

\* value of a decimal digit character, -1 for any other character
DigitVal(c) ==
  IF \E i \in 1..10 : SubSeq(Digits, i, i) = c
    THEN (CHOOSE i \in 1..10 : SubSeq(Digits, i, i) = c) - 1
    ELSE -1

RECURSIVE DigitsValue(_)
DigitsValue(s) ==
  IF s = "" THEN 0
  ELSE 10 * DigitsValue(SubSeq(s, 1, Len(s) - 1)) + DigitVal(SubSeq(s, Len(s), Len(s)))

\* int(tok) for a token of split(): an optional sign and decimal digits;
\* anything else raises ValueError (ok = FALSE)
ParseInt(tok) ==
  LET signed == tok # "" /\ Head(tok) \in {"+", "-"}
      body == IF signed THEN Tail(tok) ELSE tok
      ok == body # "" /\ \A i \in 1..Len(body) : DigitVal(SubSeq(body, i, i)) >= 0
  IN  [ok |-> ok,
       val |-> IF ~ok THEN 0
               ELSE IF signed /\ Head(tok) = "-" THEN 0 - DigitsValue(body)
               ELSE DigitsValue(body)]

(***************************************************************************)
(* App Resolver (chat-phone.py).                                           *)
(***************************************************************************)
\* the name -> package table, in the dict's insertion (= iteration) order
APP_PACKAGES ==
  <<
     <<"tiktok", "com.ss.android.ugc.trill">>,
     <<"tik tok", "com.ss.android.ugc.trill">>,
     <<"facebook", "com.facebook.katana">>,
     <<"fb", "com.facebook.katana">>,
     <<"instagram", "com.instagram.android">>,
     <<"insta", "com.instagram.android">>,
     <<"zalo", "com.zing.zalo">>,
     <<"messenger", "com.facebook.orca">>,
     <<"whatsapp", "com.whatsapp">>,
     <<"telegram", "org.telegram.messenger">>,
     <<"twitter", "com.twitter.android">>,
     <<"x", "com.twitter.android">>,
     <<"threads", "com.instagram.barcelona">>,
     <<"snapchat", "com.snapchat.android">>,
     <<"youtube", "com.google.android.youtube">>,
     <<"yt", "com.google.android.youtube">>,
     <<"youtube music", "com.google.android.apps.youtube.music">>,
     <<"gmail", "com.google.android.gm">>,
     <<"chrome", "com.android.chrome">>,
     <<"maps", "com.google.android.apps.maps">>,
     <<"google maps", "com.google.android.apps.maps">>,
     <<"photos", "com.google.android.apps.photos">>,
     <<"google photos", "com.google.android.apps.photos">>,
     <<"drive", "com.google.android.apps.docs">>,
     <<"google drive", "com.google.android.apps.docs">>,
     <<"calendar", "com.google.android.calendar">>,
     <<"keep", "com.google.android.keep">>,
     <<"settings", "com.android.settings">>,
     <<"c" \o v_a_grave \o "i " \o v_d_stroke \o v_ab_dot \o "t", "com.android.settings">>,   \* line 61
     <<"camera", "com.android.camera">>,
     <<"m" \o v_a_acute \o "y " \o v_a_hook \o "nh", "com.android.camera">>,   \* line 63
     <<"phone", "com.android.dialer">>,
     <<v_d_stroke \o "i" \o v_ec_dot \o "n tho" \o v_a_dot \o "i", "com.android.dialer">>,   \* line 65
     <<"messages", "com.android.messaging">>,
     <<"tin nh" \o v_ab_acute \o "n", "com.android.messaging">>,   \* line 67
     <<"contacts", "com.android.contacts">>,
     <<"danh b" \o v_a_dot, "com.android.contacts">>,   \* line 69
     <<"calculator", "com.android.calculator2">>,
     <<"m" \o v_a_acute \o "y t" \o v_i_acute \o "nh", "com.android.calculator2">>,   \* line 71
     <<"clock", "com.android.deskclock">>,
     <<v_d_stroke \o v_oc_grave \o "ng h" \o v_oc_grave, "com.android.deskclock">>,   \* line 73
     <<"files", "com.android.documentsui">>,
     <<"shopee", "com.shopee.vn">>,
     <<"lazada", "com.lazada.android">>,
     <<"grab", "com.grabtaxi.passenger">>,
     <<"gojek", "com.gojek.app">>,
     <<"momo", "com.mservice.momotransfer">>,
     <<"vnpay", "com.vnpay.merchant">>,
     <<"vcb", "com.VCB">>,
     <<"vietcombank", "com.VCB">>,
     <<"techcombank", "vn.com.techcombank.bb.app">>,
     <<"binance", "com.binance.dev">>,
     <<"spotify", "com.spotify.music">>,
     <<"netflix", "com.netflix.mediaclient">>,
     <<"disney", "com.disney.disneyplus">>,
     <<"notion", "notion.id">>,
     <<"slack", "com.Slack">>,
     <<"zoom", "us.zoom.videomeetings">>,
     <<"teams", "com.microsoft.teams">>
  >>

\* Optional[str]: None, or a package identifier
None == [some |-> FALSE, pkg |-> ""]

Some(p) == [some |-> TRUE, pkg |-> p]

Range(seq) == {seq[i] : i \in 1..Len(seq)}

\* least element of a non-empty set of integers
Min(S) == CHOOSE i \in S : \A j \in S : i <= j

\* a filter that does not degrade when the installed set is empty
PassesInstalledFilter_strict(pkg, installed) == pkg \in Range(installed)

\* a resolver that never looks at the installed set
PassesInstalledFilter_always(pkg, installed) == TRUE

\* "not INSTALLED_PACKAGES or pkg in INSTALLED_PACKAGES"
PassesInstalledFilter(pkg, installed) ==
  installed = << >> \/ pkg \in Range(installed)

\* "app_name_lower in name or name in app_name_lower"
PartialMatch(name, app_name_lower) ==
  Contains(name, app_name_lower) \/ Contains(app_name_lower, name)

\* a resolver that takes the name as written
NormalizeAppName_raw(app_name) == app_name

\* app_name.lower().strip()  (chat-phone.py 115)
NormalizeAppName(app_name) == Strip(Lower(app_name))


\* a resolver that tries the substring match before the exact match
find_app_package_partialFirst(app_name, installed) ==
  LET app_name_lower == NormalizeAppName(app_name)
      partial == {i \in 1..Len(APP_PACKAGES) :
                    /\ PartialMatch(APP_PACKAGES[i][1], app_name_lower)
                    /\ PassesInstalledFilter(APP_PACKAGES[i][2], installed)}
      byId == {j \in 1..Len(installed) : Contains(Lower(installed[j]), app_name_lower)}
  IN  IF partial # {} THEN Some(APP_PACKAGES[Min(partial)][2])
      ELSE IF byId # {} THEN Some(installed[Min(byId)])
      ELSE None

\* find_app_package(app_name); installed is INSTALLED_PACKAGES in the order
\* the set iterates
find_app_package(app_name, installed) ==
  LET app_name_lower == NormalizeAppName(app_name)
      direct == {i \in 1..Len(APP_PACKAGES) :
                   /\ APP_PACKAGES[i][1] = app_name_lower
                   /\ PassesInstalledFilter(APP_PACKAGES[i][2], installed)}
      partial == {i \in 1..Len(APP_PACKAGES) :
                    /\ PartialMatch(APP_PACKAGES[i][1], app_name_lower)
                    /\ PassesInstalledFilter(APP_PACKAGES[i][2], installed)}
      byId == {j \in 1..Len(installed) : Contains(Lower(installed[j]), app_name_lower)}
  IN  IF direct # {} THEN Some(APP_PACKAGES[Min(direct)][2])
      ELSE IF partial # {} THEN Some(APP_PACKAGES[Min(partial)][2])
      ELSE IF byId # {} THEN Some(installed[Min(byId)])
      ELSE None

(***************************************************************************)
(* UI elements and screen snapshots: what tools.get_state() returns.       *)
(* A UiElement is a Python dict, here a record whose domain is the set of  *)
(* keys the dict holds.                                                    *)
(***************************************************************************)
\* e.get(k, d)
Get(e, k, d) == IF k \in DOMAIN e THEN e[k] ELSE d

\* text constants of the source
T_tim_kiem == "t" \o v_i_grave \o "m ki" \o v_ec_acute \o "m"     \* chat-phone.py:403
T_binh_luan == "b" \o v_i_grave \o "nh lu" \o v_ac_dot \o "n"     \* chat-phone.py:493
T_doc == v_d_stroke \o v_o_dot \o "c"                             \* chat-phone.py:493
T_dong == v_d_stroke \o v_o_acute \o "ng"                         \* chat-phone.py:517

ImageView == "android.widget.ImageView"
Button == "android.widget.Button"
EditText == "android.widget.EditText"
FrameLayout == "android.widget.FrameLayout"
TextView == "android.widget.TextView"
TextLayout == "com.bytedance.tux.text.TuxTextLayoutView"

TikTok == "com.ss.android.ugc.trill"

\* a video feed: search icon, comment and close controls
FeedElements ==
  << [index |-> 3, text |-> "Home", className |-> TextView, x |-> 100, y |-> 2300],
     [index |-> 7, text |-> "Search", className |-> ImageView, x |-> 1000, y |-> 120],
     [index |-> 8, text |-> "", className |-> ImageView,
      contentDescription |-> "Comment"],
     [index |-> 9, text |-> "", className |-> ImageView,
      contentDescription |-> v_D_STROKE \o v_o_dot \o "c ho" \o v_ab_dot \o "c th"
                             \o "em " \o T_binh_luan],
     [index |-> 14, text |-> "Close", className |-> Button],
     [index |-> 16, text |-> "Search TikTok", className |-> Button] >>

\* a result grid: thumbnails are FrameLayouts whose resourceId contains "sq"
GridElements ==
  << [index |-> 20, text |-> "Video", className |-> TextView],
     [index |-> 12, text |-> "", className |-> FrameLayout,
      resourceId |-> "com.ss.android.ugc.trill:id/sq1", x |-> 270, y |-> 600],
     [index |-> 2, text |-> "", className |-> FrameLayout,
      resourceId |-> "com.ss.android.ugc.trill:id/cover"],
     [index |-> 15, text |-> "", className |-> FrameLayout,
      resourceId |-> "com.ss.android.ugc.trill:id/sq1", x |-> 810, y |-> 600],
     [text |-> "Shop", className |-> TextView] >>

\* the search page: an input field and a localized submit button
InputElements ==
  << [index |-> 1, text |-> "", className |-> ImageView],
     [index |-> 4, text |-> "", className |-> EditText],
     [index |-> 11, text |-> "T" \o v_i_grave \o "m ki" \o v_ec_acute \o "m",
      className |-> Button] >>

\* the search page after typing: a suggestion row and the submit button
SuggestElements ==
  << [index |-> 4, text |-> "shoes", className |-> EditText],
     [index |-> 11, text |-> "T" \o v_i_grave \o "m ki" \o v_ec_acute \o "m",
      className |-> Button],
     [index |-> 6, text |-> "Running Shoes", className |-> TextLayout],
     [index |-> 5, text |-> "shoes for men", className |-> TextLayout] >>

\* a page with an English submit button and no suggestion
SubmitElements ==
  << [index |-> 4, text |-> "shoes", className |-> EditText],
     [index |-> 13, text |-> "Search", className |-> Button] >>

\* a comments sheet with a localized close control
SheetElements ==
  << [index |-> 2, text |-> "great video", className |-> TextView],
     [index |-> 5, text |-> "", className |-> ImageView,
      contentDescription |-> v_D_STROKE \o v_o_acute \o "ng"],
     [index |-> 6, text |-> T_binh_luan, className |-> TextView],
     [index |-> 9, text |-> "Close", className |-> Button] >>

\* element-index bounds of the two prompts
CHAT_LIMIT == 30

HARNESS_LIMIT == 20

\* how many elements longer than a limit a snapshot may be
MaxExtra == 1

\* a long list whose index fields run against the snapshot order; every
\* third element carries no index key
ListElements(n) ==
  [i \in 1..n |->
     IF i % 3 = 0
       THEN [text |-> "row", className |-> TextView]
       ELSE [index |-> 100 - i, text |-> "row", className |-> TextView,
             x |-> 540, y |-> 40 * i]]

\* one list over the harness limit, one exactly at and one over the chat limit
ListLengths == {HARNESS_LIMIT + MaxExtra, CHAT_LIMIT, CHAT_LIMIT + MaxExtra}

Snap(app, elems) == [current_app |-> app, elements |-> elems]

\* snapshots the flows are exercised on
FlowSnapshots ==
  { Snap("", << >>),
    Snap(TikTok, FeedElements),
    Snap(TikTok, GridElements),
    Snap(TikTok, InputElements),
    Snap(TikTok, SuggestElements),
    Snap("com.google.android.youtube", SubmitElements),
    Snap(TikTok, SheetElements) }

Snapshots == FlowSnapshots \cup {Snap("com.android.settings", ListElements(n)) : n \in ListLengths}

(***************************************************************************)
(* Device operations (calls on AdbTools) and printed reports.              *)
(***************************************************************************)
OpGetState == [op |-> "get_state"]

OpScreenshot == [op |-> "take_screenshot"]

OpTap(i) == [op |-> "tap", index |-> i]

OpSwipe(x1, y1, x2, y2, ms) ==
  [op |-> "swipe", x1 |-> x1, y1 |-> y1, x2 |-> x2, y2 |-> y2, duration |-> ms]

\* tools.input_text(text)
OpInputText(t) == [op |-> "input_text", text |-> t]

\* tools.input_text(keyword, index=idx, clear=True)
OpInputTextAt(t, i) == [op |-> "input_text", text |-> t, index |-> i, clear |-> TRUE]

OpBack == [op |-> "back"]

OpPressKey(code) == [op |-> "press_key", code |-> code]

OpStartApp(p) == [op |-> "start_app", package |-> p]

\* the operations that act on the device (all but the two that only read it)
Actuating(o) == o.op \notin {"get_state", "take_screenshot"}

\* one printed line: its leading mark, its fixed text and the interpolated values
Msg(mark, text, args) == [mark |-> mark, text |-> text, args |-> args]

KEYCODE_HOME == 3

SWIPE_MS == 300

LONG_PRESS_MS == 1500

(***************************************************************************)
(* What a handler receives from its collaborators: which of its device     *)
(* calls raises (failAt = 0: none), the exception raised, and the          *)
(* snapshots the device returns to the calls of get_state it makes.        *)
(***************************************************************************)
NoFault == [failAt |-> 0, kind |-> "none", s1 |-> Snap("", << >>), s2 |-> Snap("", << >>)]

\* ValueError and IndexError are the two classes "except (IndexError, ValueError)" names
Caught(kind) == kind \in {"ValueError", "IndexError"}

\* result of a handler: calls made, lines printed, whether an exception left
\* the handler uncaught, and the snapshot variables as the handler leaves them
Result(ops, out, crashed, snap) ==
  [ops |-> ops, out |-> out, crashed |-> crashed, snap |-> snap]

\* index of the first element satisfying P, 0 if none ("for e in elements: if ...: break")
FirstIndex(elems, P(_)) ==
  LET hits == {i \in 1..Len(elems) : P(elems[i])} IN
    IF hits = {} THEN 0 ELSE Min(hits)

\* package = find_app_package(app_name) for the reply's argument
\* (chat-phone.py 310-313)
OpenAppPackage(reply, installed) == find_app_package(ArgAfterSpace(reply), installed)


\* an open_app branch that launches without looking at the current app
HandleOpenApp_relaunch(reply, snap, installed, env) ==
  LET app_name == ArgAfterSpace(reply)
      found == OpenAppPackage(reply, installed)
      target == IF found.some /\ found.pkg # "" THEN found.pkg ELSE app_name
  IN  Result(<<OpStartApp(target)>>,
             IF env.failAt = 1
               THEN <<Msg("fail", "Failed to open", <<app_name>>)>>
               ELSE <<Msg("ok", "Opened", <<app_name, target>>)>>,
             FALSE, snap)


\* an open_app branch that gives up when the resolver finds nothing
HandleOpenApp_noFallback(reply, snap, installed, env) ==
  LET app_name == ArgAfterSpace(reply)
      found == OpenAppPackage(reply, installed)
  IN  IF found.some /\ found.pkg # ""
        THEN IF Contains(snap.current_app, found.pkg)
               THEN Result(<< >>, <<Msg("ok", "Already in", <<app_name, found.pkg>>)>>,
                           FALSE, snap)
               ELSE Result(<<OpStartApp(found.pkg)>>,
                           IF env.failAt = 1
                             THEN <<Msg("fail", "Failed to open", <<app_name>>)>>
                             ELSE <<Msg("ok", "Opened", <<app_name, found.pkg>>)>>,
                           FALSE, snap)
        ELSE Result(<< >>, <<Msg("fail", "App not found", <<app_name>>)>>, FALSE, snap)

\* open_app / start_app branch (chat-phone.py 308-331)
HandleOpenApp(reply, snap, installed, env) ==
  LET app_name == ArgAfterSpace(reply)
      found == OpenAppPackage(reply, installed)
      raised == env.failAt = 1
  IN  IF found.some /\ found.pkg # ""
        THEN IF Contains(snap.current_app, found.pkg)
               THEN Result(<< >>, <<Msg("ok", "Already in", <<app_name, found.pkg>>)>>,
                           FALSE, snap)
               ELSE Result(<<OpStartApp(found.pkg)>>,
                           IF raised
                             THEN <<Msg("fail", "Failed to open", <<app_name>>)>>
                             ELSE <<Msg("ok", "Opened", <<app_name, found.pkg>>)>>,
                           FALSE, snap)
        ELSE Result(<<OpStartApp(app_name)>>,
                    IF raised
                      THEN <<Msg("fail", "App not found", <<app_name>>)>>
                      ELSE <<Msg("ok", "Opened", <<app_name>>)>>,
                    FALSE, snap)

\* int(reply.split()[1]): IndexError without a second token, ValueError
\* when it is no integer
IndexArg(reply) ==
  LET toks == SplitWs(reply) IN
    IF Len(toks) < 2 THEN [ok |-> FALSE, val |-> 0] ELSE ParseInt(toks[2])

\* a tap branch without its try/except: int() and the tap raise through
HandleTap_unguarded(reply, snap, env) ==
  LET arg == IndexArg(reply) IN
    IF ~arg.ok THEN Result(<< >>, << >>, TRUE, snap)
    ELSE IF env.failAt = 1 THEN Result(<<OpTap(arg.val)>>, << >>, TRUE, snap)
    ELSE Result(<<OpTap(arg.val)>>, <<Msg("ok", "Tapped element", <<arg.val>>)>>,
                FALSE, snap)

\* tap branch (chat-phone.py 333-339)
HandleTap(reply, snap, env) ==
  LET arg == IndexArg(reply) IN
    IF ~arg.ok
      THEN Result(<< >>, <<Msg("fail", "Invalid tap command", << >>)>>, FALSE, snap)
    ELSE IF env.failAt = 1
      THEN IF Caught(env.kind)
             THEN Result(<<OpTap(arg.val)>>,
                         <<Msg("fail", "Invalid tap command", << >>)>>, FALSE, snap)
             ELSE Result(<<OpTap(arg.val)>>, << >>, TRUE, snap)
    ELSE Result(<<OpTap(arg.val)>>, <<Msg("ok", "Tapped element", <<arg.val>>)>>,
                FALSE, snap)

\* a branch that makes one unguarded call and prints one line
OneCall(o, msg, snap, env) ==
  IF env.failAt = 1
    THEN Result(<<o>>, << >>, TRUE, snap)
    ELSE Result(<<o>>, <<msg>>, FALSE, snap)

\* back branch (chat-phone.py 341-343)
HandleBack(snap, env) == OneCall(OpBack, Msg("ok", "Pressed back", << >>), snap, env)

\* home branch (chat-phone.py 345-347)
HandleHome(snap, env) ==
  OneCall(OpPressKey(KEYCODE_HOME), Msg("ok", "Pressed home", << >>), snap, env)

\* input_text branch (chat-phone.py 349-352)
HandleInputText(reply, snap, env) ==
  LET text == ArgAfterSpace(reply) IN
    OneCall(OpInputText(text), Msg("ok", "Typed", <<text>>), snap, env)


\* a swipe whose distance is a third of the width
HandleSwipe_widthThird(reply_lower, snap, w, h, env) ==
  LET cx == w \div 2
      cy == h \div 2
      distance == w \div 3
  IN  IF Contains(reply_lower, "up")
        THEN OneCall(OpSwipe(cx, cy + distance, cx, cy - distance, SWIPE_MS),
                     Msg("ok", "Swiped up", << >>), snap, env)
      ELSE IF Contains(reply_lower, "down")
        THEN OneCall(OpSwipe(cx, cy - distance, cx, cy + distance, SWIPE_MS),
                     Msg("ok", "Swiped down", << >>), snap, env)
      ELSE Result(<< >>, <<Msg("fail", "Unknown swipe direction", << >>)>>, FALSE, snap)

\* swipe / scroll branch (chat-phone.py 354-372)
HandleSwipe(reply_lower, snap, w, h, env) ==
  LET cx == w \div 2
      cy == h \div 2
      distance == h \div 3
  IN  IF Contains(reply_lower, "up")
        THEN OneCall(OpSwipe(cx, cy + distance, cx, cy - distance, SWIPE_MS),
                     Msg("ok", "Swiped up", << >>), snap, env)
      ELSE IF Contains(reply_lower, "down")
        THEN OneCall(OpSwipe(cx, cy - distance, cx, cy + distance, SWIPE_MS),
                     Msg("ok", "Swiped down", << >>), snap, env)
      ELSE IF Contains(reply_lower, "left")
        THEN OneCall(OpSwipe(cx + distance, cy, cx - distance, cy, SWIPE_MS),
                     Msg("ok", "Swiped left", << >>), snap, env)
      ELSE IF Contains(reply_lower, "right")
        THEN OneCall(OpSwipe(cx - distance, cy, cx + distance, cy, SWIPE_MS),
                     Msg("ok", "Swiped right", << >>), snap, env)
      ELSE Result(<< >>, <<Msg("fail", "Unknown swipe direction", << >>)>>, FALSE, snap)


\* Test 6 of test-features.py (95-105): the swipe up it issues
TF_SwipeUp(width, height) ==
  LET cx == width \div 2
      cy == height \div 2
      distance == height \div 3
  IN  OpSwipe(cx, cy + distance, cx, cy - distance, SWIPE_MS)

\* Test 7 of test-features.py (109-119): the swipe down it issues
TF_SwipeDown(width, height) ==
  LET cx == width \div 2
      cy == height \div 2
      distance == height \div 3
  IN  OpSwipe(cx, cy - distance, cx, cy + distance, SWIPE_MS)

\* Test 10 of test-features.py (139-148): the long press it issues
TF_LongPress(width, height) ==
  LET cx == width \div 2
      cy == height \div 2
  IN  OpSwipe(cx, cy, cx, cy, LONG_PRESS_MS)

\* long_press branch (chat-phone.py 374-388); elements[index] is Python
\* indexing: 0-based, a negative index counts from the end, and an index
\* below -len raises IndexError
HandleLongPress(reply, snap, w, h, env) ==
  LET arg == IndexArg(reply)
      elems == snap.elements
      n == Len(elems)
      invalid == Result(<< >>, <<Msg("fail", "Invalid long_press command", << >>)>>,
                        FALSE, snap)
  IN  IF ~arg.ok THEN invalid
      ELSE IF ~(arg.val < n)
        THEN Result(<< >>, <<Msg("fail", "Element not found", <<arg.val>>)>>, FALSE, snap)
      ELSE IF arg.val < 0 - n THEN invalid
      ELSE LET elem == elems[(IF arg.val < 0 THEN n + arg.val ELSE arg.val) + 1]
               x == Get(elem, "x", w \div 2)
               y == Get(elem, "y", h \div 2)
               o == OpSwipe(x, y, x, y, LONG_PRESS_MS)
           IN  IF env.failAt = 1
                 THEN IF Caught(env.kind)
                        THEN Result(<<o>>,
                                    <<Msg("fail", "Invalid long_press command", << >>)>>,
                                    FALSE, snap)
                        ELSE Result(<<o>>, << >>, TRUE, snap)
                 ELSE Result(<<o>>, <<Msg("ok", "Long pressed element", <<arg.val>>)>>,
                             FALSE, snap)

\* step 1 of search: a search affordance (chat-phone.py 400-403)
IsSearchAffordance(e) ==
  LET text == Lower(Get(e, "text", ""))
      cls == Lower(Get(e, "className", ""))
  IN  /\ Contains(text, T_tim_kiem) \/ Contains(text, "search")
      /\ Contains(cls, "image") \/ Contains(cls, "button")

\* step 3 of search: a text-input field (chat-phone.py 418-420)
IsEditText(e) == Contains(Lower(Get(e, "className", "")), "edittext")

\* step 4 of search: a suggestion for the keyword (chat-phone.py 429-431)
IsSuggestion(se, keyword) ==
  /\ Contains(Lower(Get(se, "text", "")), Lower(keyword))
  /\ Contains(Lower(Get(se, "className", "")), "textlayout")

\* step 5 of search: the submit button (chat-phone.py 440)
IsSubmitButton(se) ==
  /\ Contains(Lower(Get(se, "text", "")), T_tim_kiem)
  /\ Contains(Lower(Get(se, "className", "")), "button")


\* a last step that prefers the submit button to a suggestion
SearchSelect_submitFirst(keyword, done, out, env) ==
  LET elems == env.s2.elements
      sg == FirstIndex(elems, LAMBDA se : IsSuggestion(se, keyword))
      sb == FirstIndex(elems, IsSubmitButton)
  IN  IF sb # 0
        THEN Result(done \o <<OpTap(Get(elems[sb], "index", 0))>>,
                    out \o <<Msg("ok", "Tapped search button", << >>)>>, FALSE, env.s2)
      ELSE IF sg # 0
        THEN Result(done \o <<OpTap(Get(elems[sg], "index", 0))>>,
                    out \o <<Msg("ok", "Selected", <<Get(elems[sg], "text", "")>>)>>,
                    FALSE, env.s2)
      ELSE Result(done, out, FALSE, env.s2)

\* steps 4 and 5, on the snapshot fetched after typing (chat-phone.py 425-444);
\* done: the calls made and lines printed so far
SearchSelect(keyword, done, out, env) ==
  LET elems == env.s2.elements
      sg == FirstIndex(elems, LAMBDA se : IsSuggestion(se, keyword))
      sb == FirstIndex(elems, IsSubmitButton)
      failed == <<Msg("fail", "Search failed", << >>)>>
  IN  IF sg # 0
        THEN LET o == OpTap(Get(elems[sg], "index", 0)) IN
               IF env.failAt = 5
                 THEN Result(done \o <<o>>, out \o failed, FALSE, env.s2)
                 ELSE Result(done \o <<o>>,
                             out \o <<Msg("ok", "Selected", <<Get(elems[sg], "text", "")>>)>>,
                             FALSE, env.s2)
      ELSE IF sb # 0
        THEN LET o == OpTap(Get(elems[sb], "index", 0)) IN
               IF env.failAt = 5
                 THEN Result(done \o <<o>>, out \o failed, FALSE, env.s2)
                 ELSE Result(done \o <<o>>,
                             out \o <<Msg("ok", "Tapped search button", << >>)>>,
                             FALSE, env.s2)
      ELSE Result(done, out, FALSE, env.s2)



\* a search that reports a missing input field
SearchType_reportMissing(keyword, snap, done, out, env) ==
  LET failed == <<Msg("fail", "Search failed", << >>)>>
      elems == env.s1.elements
      ed == FirstIndex(elems, IsEditText)
  IN  IF env.failAt = 2
        THEN Result(done \o <<OpGetState>>, out \o failed, FALSE, snap)
      ELSE IF ed = 0
        THEN Result(done \o <<OpGetState>>,
                    out \o <<Msg("fail", "Search input not found", << >>)>>, FALSE, env.s1)
      ELSE SearchSelect(keyword,
                        done \o <<OpGetState,
                                  OpInputTextAt(keyword, Get(elems[ed], "index", 0)),
                                  OpGetState>>,
                        out \o <<Msg("ok", "Typed", <<keyword>>)>>, env)

\* a search that types into the snapshot it already has, without get_state
SearchType_noRefetch(keyword, snap, done, out, env) ==
  LET elems == snap.elements
      ed == FirstIndex(elems, IsEditText)
  IN  IF ed = 0 THEN Result(done, out, FALSE, snap)
      ELSE SearchSelect(keyword,
                        done \o <<OpInputTextAt(keyword, Get(elems[ed], "index", 0)),
                                  OpGetState>>,
                        out \o <<Msg("ok", "Typed", <<keyword>>)>>, env)

\* steps 2 to 5, after the affordance was tapped (chat-phone.py 413-444)
SearchType(keyword, snap, done, out, env) ==
  LET failed == <<Msg("fail", "Search failed", << >>)>>
      elems == env.s1.elements
      ed == FirstIndex(elems, IsEditText)
  IN  IF env.failAt = 2
        THEN Result(done \o <<OpGetState>>, out \o failed, FALSE, snap)
      ELSE IF ed = 0
        THEN Result(done \o <<OpGetState>>, out, FALSE, env.s1)
      ELSE LET typed == done \o <<OpGetState,
                                  OpInputTextAt(keyword, Get(elems[ed], "index", 0))>>
           IN  IF env.failAt = 3
                 THEN Result(typed, out \o failed, FALSE, env.s1)
               ELSE IF env.failAt = 4
                 THEN Result(typed \o <<OpGetState>>,
                             out \o <<Msg("ok", "Typed", <<keyword>>)>> \o failed,
                             FALSE, env.s1)
               ELSE SearchSelect(keyword, typed \o <<OpGetState>>,
                                 out \o <<Msg("ok", "Typed", <<keyword>>)>>, env)


\* a search that taps the last search affordance of the snapshot
HandleSearch_lastMatch(reply, snap, env) ==
  LET keyword == ArgAfterSpace(reply)
      hits == {i \in 1..Len(snap.elements) : IsSearchAffordance(snap.elements[i])}
      st == IF hits = {} THEN 0 ELSE CHOOSE i \in hits : \A j \in hits : j <= i
      begun == <<Msg("info", "Searching for", <<keyword>>)>>
  IN  IF keyword = ""
        THEN Result(<< >>, <<Msg("fail", "No search keyword provided", << >>)>>,
                    FALSE, snap)
      ELSE IF st = 0
        THEN Result(<< >>, begun \o <<Msg("fail", "Search button not found", << >>)>>,
                    FALSE, snap)
      ELSE LET o == OpTap(Get(snap.elements[st], "index", 0)) IN
             IF env.failAt = 1
               THEN Result(<<o>>, begun \o <<Msg("fail", "Search failed", << >>)>>,
                           FALSE, snap)
               ELSE SearchType(keyword, snap, <<o>>,
                               begun \o <<Msg("ok", "Opened search", << >>)>>, env)

\* search branch (chat-phone.py 390-446); every exception is caught at 445
HandleSearch(reply, snap, env) ==
  LET keyword == ArgAfterSpace(reply)
      st == FirstIndex(snap.elements, IsSearchAffordance)
      begun == <<Msg("info", "Searching for", <<keyword>>)>>
  IN  IF keyword = ""
        THEN Result(<< >>, <<Msg("fail", "No search keyword provided", << >>)>>,
                    FALSE, snap)
      ELSE IF st = 0
        THEN Result(<< >>, begun \o <<Msg("fail", "Search button not found", << >>)>>,
                    FALSE, snap)
      ELSE LET o == OpTap(Get(snap.elements[st], "index", 0)) IN
             IF env.failAt = 1
               THEN Result(<<o>>, begun \o <<Msg("fail", "Search failed", << >>)>>,
                           FALSE, snap)
               ELSE SearchType(keyword, snap, <<o>>,
                               begun \o <<Msg("ok", "Opened search", << >>)>>, env)

\* the thumbnail heuristic (chat-phone.py 455-457); both tests are case-sensitive
IsThumbnail(e) ==
  /\ Contains(Get(e, "resourceId", ""), "sq")
  /\ Contains(Get(e, "className", ""), "FrameLayout")

\* positions of the thumbnails, in snapshot order
Thumbnails(elems) == {i \in 1..Len(elems) : IsThumbnail(elems[i])}

\* position of the video_num-th thumbnail, 0 if there are fewer (or video_num < 1)
NthThumbnail(elems, video_num) ==
  LET hits == {i \in Thumbnails(elems) :
                 Cardinality({j \in Thumbnails(elems) : j <= i}) = video_num}
  IN  IF hits = {} THEN 0 ELSE Min(hits)

\* tap_video branch (chat-phone.py 448-468)
HandleTapVideo(reply, snap, env) ==
  LET arg == IndexArg(reply)
      elems == snap.elements
      invalid == Result(<< >>, <<Msg("fail", "Invalid tap_video command", << >>)>>,
                        FALSE, snap)
      p == NthThumbnail(elems, arg.val)
  IN  IF ~arg.ok THEN invalid
      ELSE IF p = 0
        THEN Result(<< >>,
                    <<Msg("fail", "Video not found",
                          <<arg.val, Cardinality(Thumbnails(elems))>>)>>,
                    FALSE, snap)
      ELSE LET idx == Get(elems[p], "index", 0) IN
             IF env.failAt = 1
               THEN IF Caught(env.kind)
                      THEN Result(<<OpTap(idx)>>, invalid.out, FALSE, snap)
                      ELSE Result(<<OpTap(idx)>>, << >>, TRUE, snap)
               ELSE Result(<<OpTap(idx)>>,
                           <<Msg("ok", "Tapped video", <<arg.val, idx>>)>>, FALSE, snap)

\* select_tab branch (chat-phone.py 470-486)
HandleSelectTab(reply, snap, env) ==
  LET tab_name == ArgAfterSpace(reply)
      elems == snap.elements
      IsTab(e) == /\ Lower(Get(e, "text", "")) = Lower(tab_name)
                  /\ \/ Contains(Get(e, "className", ""), "FrameLayout")
                     \/ Contains(Get(e, "className", ""), "TextView")
      p == FirstIndex(elems, IsTab)
  IN  IF tab_name = ""
        THEN Result(<< >>, <<Msg("fail", "No tab name provided", << >>)>>, FALSE, snap)
      ELSE IF p = 0
        THEN Result(<< >>, <<Msg("fail", "Tab not found", <<tab_name>>)>>, FALSE, snap)
      ELSE OneCall(OpTap(Get(elems[p], "index", 0)),
                   Msg("ok", "Selected tab", <<Get(elems[p], "text", "")>>), snap, env)

\* e.get('contentDescription', '') or e.get('text', '')
Desc(e) ==
  IF Get(e, "contentDescription", "") # "" THEN e.contentDescription
  ELSE Get(e, "text", "")


\* an open_comments branch with one pass: the first element that holds a
\* comments token
HandleOpenComments_onePass(snap, env) ==
  LET elems == snap.elements
      Loose(e) == Contains(Lower(Desc(e)), "comment") \/ Contains(Lower(Desc(e)), T_binh_luan)
      p == FirstIndex(elems, Loose)
  IN  IF p = 0
        THEN Result(<< >>, <<Msg("fail", "Comment button not found", << >>)>>, FALSE, snap)
        ELSE OneCall(OpTap(Get(elems[p], "index", 0)),
                     Msg("ok", "Opened comments", << >>), snap, env)

\* open_comments branch (chat-phone.py 488-510)
HandleOpenComments(snap, env) ==
  LET elems == snap.elements
      Strict(e) == Contains(Lower(Desc(e)), T_binh_luan) /\ Contains(Lower(Desc(e)), T_doc)
      Loose(e) == Contains(Lower(Desc(e)), "comment") \/ Contains(Lower(Desc(e)), T_binh_luan)
      s == FirstIndex(elems, Strict)
      l == FirstIndex(elems, Loose)
      p == IF s # 0 THEN s ELSE l
  IN  IF p = 0
        THEN Result(<< >>, <<Msg("fail", "Comment button not found", << >>)>>, FALSE, snap)
        ELSE OneCall(OpTap(Get(elems[p], "index", 0)),
                     Msg("ok", "Opened comments", << >>), snap, env)


\* a close_comments branch without the back fallback
HandleCloseComments_noFallback(snap, env) ==
  LET elems == snap.elements
      IsClose(e) == Contains(Lower(Desc(e)), T_dong) \/ Contains(Lower(Desc(e)), "close")
      p == FirstIndex(elems, IsClose)
  IN  IF p # 0
        THEN OneCall(OpTap(Get(elems[p], "index", 0)),
                     Msg("ok", "Closed comments", << >>), snap, env)
        ELSE Result(<< >>, <<Msg("fail", "Close button not found", << >>)>>, FALSE, snap)

\* close_comments branch (chat-phone.py 512-526)
HandleCloseComments(snap, env) ==
  LET elems == snap.elements
      IsClose(e) == Contains(Lower(Desc(e)), T_dong) \/ Contains(Lower(Desc(e)), "close")
      p == FirstIndex(elems, IsClose)
  IN  IF p # 0
        THEN OneCall(OpTap(Get(elems[p], "index", 0)),
                     Msg("ok", "Closed comments", << >>), snap, env)
        ELSE OneCall(OpBack, Msg("ok", "Closed comments (back)", << >>), snap, env)

(***************************************************************************)
(* The interactive session loop (chat-phone.py main, 170-531).             *)
(***************************************************************************)
VARIABLES
  program,             \* which script runs: "chat-phone" or "test-command"
  pc,                  \* where control is
  vision_mode,         \* chat-phone.py:140
  INSTALLED_PACKAGES,  \* chat-phone.py:101, in the order the set iterates
  SCREEN_WIDTH,        \* chat-phone.py:23
  SCREEN_HEIGHT,       \* chat-phone.py:24
  goal,                \* the user's request of the current turn
  current_app,         \* from the last get_state
  elements,            \* from the last get_state
  elements_str,        \* the rendered element index, one string per line
  response,            \* outcome of the turn's model call: "", "raise", "none", "text"
  reply,               \* first line of the model's reply
  package,             \* what find_app_package returned to the open_app branch
  queries,             \* model calls made in the current turn
  handlers,            \* action branches entered in the current turn
  ops,                 \* device calls made in the current turn, in order
  out                  \* lines printed in the current turn, in order

vars == <<program, pc, vision_mode, INSTALLED_PACKAGES, SCREEN_WIDTH, SCREEN_HEIGHT,
          goal, current_app, elements, elements_str, response, reply, package, queries,
          handlers, ops, out>>

session == <<program, vision_mode, INSTALLED_PACKAGES, SCREEN_WIDTH, SCREEN_HEIGHT>>

RECURSIVE NatToStr(_)
NatToStr(n) ==
  IF n < 10 THEN SubSeq(Digits, n + 1, n + 1)
  ELSE NatToStr(n \div 10) \o SubSeq(Digits, (n % 10) + 1, (n % 10) + 1)

\* str(n) of an integer
IntToStr(n) == IF n < 0 THEN "-" \o NatToStr(0 - n) ELSE NatToStr(n)

\* one line of the element index, for the element at 0-based position i
\* (chat-phone.py 195): "[index] text (className)"
ElementLine(e, i) ==
  "[" \o IntToStr(Get(e, "index", i + 1)) \o "] " \o Get(e, "text", "")
      \o " (" \o Get(e, "className", Get(e, "class", "")) \o ")"

\* an element index without the [:limit] cut
RenderElements_all(elems, limit) ==
  [i \in 1..Len(elems) |-> ElementLine(elems[i], i - 1)]

\* the lines joined into elements_str: elements[:limit], in order
RenderElements(elems, limit) ==
  [i \in 1..(IF Len(elems) < limit THEN Len(elems) ELSE limit) |->
     ElementLine(elems[i], i - 1)]

\* the 14 keyword tokens (chat-phone.py 300)
action_keywords ==
  << "open_app", "start_app", "tap", "tap_video", "back", "home", "input_text",
     "swipe", "scroll", "long_press", "search", "select_tab", "open_comments",
     "close_comments" >>

\* a classification that looks for a keyword anywhere in the reply
is_action_anywhere(r) ==
  \E k \in 1..Len(action_keywords) : Contains(Lower(r), action_keywords[k])

\* chat-phone.py 301
is_action(r) ==
  \E k \in 1..Len(action_keywords) : StartsWith(Lower(r), action_keywords[k])

\* the branch of the if/elif chain (chat-phone.py 303-529) that a reply takes:
\* the first whose condition holds; "none" when is_action holds and no
\* condition of the chain does
Branch(r) ==
  LET reply_lower == Lower(r) IN
    IF ~is_action(r) THEN "unrecognized"
    ELSE IF StartsWith(reply_lower, "open_app") \/ StartsWith(reply_lower, "start_app")
      THEN "open_app"
    ELSE IF StartsWith(reply_lower, "tap") THEN "tap"
    ELSE IF reply_lower = "back" THEN "back"
    ELSE IF reply_lower = "home" THEN "home"
    ELSE IF StartsWith(reply_lower, "input_text") THEN "input_text"
    ELSE IF StartsWith(reply_lower, "swipe") \/ StartsWith(reply_lower, "scroll")
      THEN "swipe"
    ELSE IF StartsWith(reply_lower, "long_press") THEN "long_press"
    ELSE IF StartsWith(reply_lower, "search") THEN "search"
    ELSE IF StartsWith(reply_lower, "tap_video") THEN "tap_video"
    ELSE IF StartsWith(reply_lower, "select_tab") THEN "select_tab"
    ELSE IF reply_lower = "open_comments" THEN "open_comments"
    ELSE IF reply_lower = "close_comments" THEN "close_comments"
    ELSE "none"

\* the body of the branch taken
Execute(branch, r, snap, installed, w, h, env) ==
  CASE branch = "open_app" -> HandleOpenApp(r, snap, installed, env)
    [] branch = "tap" -> HandleTap(r, snap, env)
    [] branch = "back" -> HandleBack(snap, env)
    [] branch = "home" -> HandleHome(snap, env)
    [] branch = "input_text" -> HandleInputText(r, snap, env)
    [] branch = "swipe" -> HandleSwipe(Lower(r), snap, w, h, env)
    [] branch = "long_press" -> HandleLongPress(r, snap, w, h, env)
    [] branch = "search" -> HandleSearch(r, snap, env)
    [] branch = "tap_video" -> HandleTapVideo(r, snap, env)
    [] branch = "select_tab" -> HandleSelectTab(r, snap, env)
    [] branch = "open_comments" -> HandleOpenComments(snap, env)
    [] branch = "close_comments" -> HandleCloseComments(snap, env)
    [] OTHER -> Result(<< >>, << >>, FALSE, snap)

(***************************************************************************)
(* Inputs: what the user types, what the model answers, what the device    *)
(* holds.                                                                  *)
(***************************************************************************)
UserLines ==
  { "", "   ", "quit", " QUIT ", "vision on", "Vision OFF", "vision off", "quit now" }

\* response.text of a model call that returns one
ModelTexts ==
  { "open_app tiktok", "open_app  TikTok ", "start_app zalo", "open_app",
    "open_app com.example.app", "OPEN_APP YouTube", "open_app settings",
    "tap 5", "tap abc", "tap", "TAP 7", "tap -3", "  tap 12  \nthen wait", "tap 5.5",
    "tap 69",
    "tap_video 1", "tap_video 2", "tap_video", "TAP_VIDEO 2", "tap_video 9",
    "tap_video abc",
    "back", "Back", "back now", "home", "homepage",
    "input_text Hello World", "input_text",
    "swipe up", "swipe down", "Swipe Left", "swipe right", "scroll down", "swipe",
    "scroll sideways",
    "long_press 1", "long_press xyz", "long_press", "long_press 99", "long_press -1",
    "long_press 0", "long_press 30", "long_press 3",
    "search shoes", "search", "Search Shoes", "search zzz",
    "select_tab Video", "select_tab", "select_tab video",
    "open_comments", "close_comments", "open_comments now",
    "I cannot do that", "Hello There\nsecond line", "", "The tap is open",
    "Tip: use search" }

\* a model call raises, returns no text, or returns a text
ModelResponses ==
  { [kind |-> "raise", text |-> ""], [kind |-> "none", text |-> ""] }
    \cup { [kind |-> "text", text |-> t] : t \in ModelTexts }

\* INSTALLED_PACKAGES after load_installed_packages (chat-phone.py 103-111):
\* empty when list_packages raised or the device lists nothing
SessionInstalled == { << >>, <<"com.zing.zalo", "com.example.app">> }

\* "wm size" answers (chat-phone.py 155-163); 1080x2400 is also the default
ScreenSizes == { <<1080, 2400>>, <<720, 1280>> }

\* fault plans of a branch that makes at most one device call
OneCallEnvs ==
  { NoFault } \cup
  { [failAt |-> 1, kind |-> k, s1 |-> NoFault.s1, s2 |-> NoFault.s2] :
      k \in {"ValueError", "IndexError", "Exception"} }

\* the search branch makes up to five calls, two of them get_state
MaxSearchCalls == 5

\* what get_state returns after the affordance was tapped, and after typing
SearchPages == {Snap("", << >>), Snap(TikTok, FeedElements), Snap(TikTok, InputElements)}

ResultPages ==
  { Snap("", << >>), Snap(TikTok, InputElements), Snap(TikTok, SuggestElements),
    Snap("com.google.android.youtube", SubmitElements) }

SearchEnvs ==
  { [failAt |-> f, kind |-> IF f = 0 THEN "none" ELSE "Exception", s1 |-> a, s2 |-> b] :
      f \in 0..MaxSearchCalls, a \in SearchPages, b \in ResultPages }

Envs(branch) == IF branch = "search" THEN SearchEnvs ELSE OneCallEnvs

(***************************************************************************)
(* Actions of the session loop.                                            *)
(***************************************************************************)
Init ==
  /\ program \in {"chat-phone", "test-command"}
  /\ \/ /\ program = "chat-phone"
        /\ pc = "AwaitingInput"
        /\ vision_mode \in BOOLEAN
        /\ INSTALLED_PACKAGES \in SessionInstalled
        /\ \E sz \in ScreenSizes : SCREEN_WIDTH = sz[1] /\ SCREEN_HEIGHT = sz[2]
     \/ /\ program = "test-command"     \* no vision, no installed set, fixed size
        /\ pc = "tc_start"
        /\ vision_mode = FALSE
        /\ INSTALLED_PACKAGES = << >>
        /\ SCREEN_WIDTH = 1080 /\ SCREEN_HEIGHT = 2400
  /\ goal = ""
  /\ current_app = ""
  /\ elements = << >>
  /\ elements_str = << >>
  /\ response = ""
  /\ reply = ""
  /\ package = None
  /\ queries = 0
  /\ handlers = << >>
  /\ ops = << >>
  /\ out = << >>


\* a loop head that compares the line with the commands as written
InputKind_caseSensitive(line) ==
  LET g == Strip(line) IN
    IF g = "" THEN "empty"
    ELSE IF g = "quit" THEN "quit"
    ELSE IF g = "vision on" THEN "vision on"
    ELSE IF g = "vision off" THEN "vision off"
    ELSE "request"

\* what the loop head does with one line of input (chat-phone.py 177-189)
InputKind(line) ==
  LET g == Strip(line) IN
    IF g = "" THEN "empty"
    ELSE IF Lower(g) = "quit" THEN "quit"
    ELSE IF Lower(g) = "vision on" THEN "vision on"
    ELSE IF Lower(g) = "vision off" THEN "vision off"
    ELSE "request"

\* input() returns a line (chat-phone.py 170-189); a new turn starts
ReadInput ==
  /\ program = "chat-phone"
  /\ pc = "AwaitingInput"
  /\ \E line \in UserLines :
       LET kind == InputKind(line) IN
         /\ goal' = Strip(line)
         /\ pc' = CASE kind = "quit" -> "Shutdown"
                    [] kind = "request" -> "BuildingPrompt"
                    [] OTHER -> "AwaitingInput"
         /\ vision_mode' = CASE kind = "vision on" -> TRUE
                             [] kind = "vision off" -> FALSE
                             [] OTHER -> vision_mode
         /\ out' = CASE kind = "quit" -> <<Msg("info", "Bye!", << >>)>>
                     [] kind = "vision on" -> <<Msg("info", "Vision: ON", << >>)>>
                     [] kind = "vision off" -> <<Msg("info", "Vision: OFF", << >>)>>
                     [] OTHER -> << >>
  /\ response' = ""
  /\ reply' = ""
  /\ package' = None
  /\ elements_str' = << >>
  /\ queries' = 0
  /\ handlers' = << >>
  /\ ops' = << >>
  /\ UNCHANGED <<program, INSTALLED_PACKAGES, SCREEN_WIDTH, SCREEN_HEIGHT,
                 current_app, elements>>

\* input() raises KeyboardInterrupt or EOFError (chat-phone.py 173-175)
EndOfInput ==
  /\ program = "chat-phone"
  /\ pc = "AwaitingInput"
  /\ pc' = "Shutdown"
  /\ out' = <<Msg("info", "Bye!", << >>)>>
  /\ goal' = ""
  /\ response' = ""
  /\ reply' = ""
  /\ package' = None
  /\ elements_str' = << >>
  /\ queries' = 0
  /\ handlers' = << >>
  /\ ops' = << >>
  /\ UNCHANGED <<session, current_app, elements>>

\* get_state, the element index and, with vision on, the screenshot
\* (chat-phone.py 191-280); neither call is inside a try
BuildPrompt ==
  /\ program = "chat-phone"
  /\ pc = "BuildingPrompt"
  /\ \E snap \in Snapshots, failAt \in 0..2 :
       IF failAt = 1
         THEN /\ ops' = <<OpGetState>>
              /\ pc' = "Crashed"
              /\ UNCHANGED <<current_app, elements, elements_str>>
         ELSE /\ current_app' = snap.current_app
              /\ elements' = snap.elements
              /\ elements_str' = RenderElements(snap.elements, CHAT_LIMIT)
              /\ ops' = IF vision_mode THEN <<OpGetState, OpScreenshot>> ELSE <<OpGetState>>
              /\ pc' = IF vision_mode /\ failAt = 2 THEN "Crashed" ELSE "AwaitingModelReply"
  /\ UNCHANGED <<session, goal, response, reply, package, queries, handlers, out>>

\* a loop that queries the model again when it gave no reply
AfterNoReply_retry == "AwaitingModelReply"

\* a loop that goes on to classification when the model gave no reply
AfterNoReply_fallthrough == "ParsingAction"

\* where the loop goes after a model call that gave no reply (chat-phone.py 291, 297)
AfterNoReply == "AwaitingInput"

\* reply = response.text.strip().split('\n')[0]  (chat-phone.py 293)
FirstLine(text) == SplitHead(Strip(text), "\n")

\* the model call (chat-phone.py 282-297)
QueryModel ==
  /\ program = "chat-phone"
  /\ pc = "AwaitingModelReply"
  /\ queries' = queries + 1
  /\ \E resp \in ModelResponses :
       /\ response' = resp.kind
       /\ CASE resp.kind = "raise" ->
                 /\ out' = out \o <<Msg("fail", "API Error", << >>)>>
                 /\ pc' = AfterNoReply
                 /\ reply' = reply
            [] resp.kind = "none" ->
                 /\ out' = out \o <<Msg("info", "(No response - try again or rephrase)",
                                        << >>)>>
                 /\ pc' = AfterNoReply
                 /\ reply' = reply
            [] OTHER ->
                 /\ reply' = FirstLine(resp.text)
                 /\ pc' = "ParsingAction"
                 /\ out' = out
  /\ UNCHANGED <<session, goal, current_app, elements, elements_str, package, handlers,
                 ops>>

\* what is printed for the reply before its branch runs (chat-phone.py 304, 529)
ReplyLine(r) ==
  IF is_action(r) THEN Msg("action", "Action:", <<r>>) ELSE Msg("reply", "", <<r>>)

\* classification and execution of the reply (chat-phone.py 299-531)
ExecuteAction ==
  /\ program = "chat-phone"
  /\ pc = "ParsingAction"
  /\ LET branch == Branch(reply) IN
       \E env \in Envs(branch) :
         LET r == Execute(branch, reply, Snap(current_app, elements), INSTALLED_PACKAGES,
                          SCREEN_WIDTH, SCREEN_HEIGHT, env)
         IN  /\ ops' = ops \o r.ops
             /\ out' = out \o <<ReplyLine(reply)>> \o r.out
             /\ handlers' = IF branch \in {"unrecognized", "none"} THEN handlers
                            ELSE Append(handlers, branch)
             /\ current_app' = r.snap.current_app
             /\ elements' = r.snap.elements
             /\ package' = IF branch = "open_app"
                            THEN OpenAppPackage(reply, INSTALLED_PACKAGES)
                            ELSE package
             /\ pc' = IF r.crashed THEN "Crashed" ELSE "AwaitingInput"
  /\ UNCHANGED <<session, goal, elements_str, response, reply, queries>>

(***************************************************************************)
(* The single-command harness (test-command.py).  Nothing in it is inside  *)
(* a try: every exception ends the run.                                    *)
(***************************************************************************)
\* test-command.py 23-29
TC_APP_PACKAGES ==
  << <<"tiktok", "com.ss.android.ugc.trill">>,
     <<"facebook", "com.facebook.katana">>,
     <<"zalo", "com.zing.zalo">>,
     <<"settings", "com.android.settings">>,
     <<"youtube", "com.google.android.youtube">> >>

\* test-command.py 31-38
TC_find_app_package(app_name) ==
  LET app_name_lower == Strip(Lower(app_name))
      direct == {i \in 1..Len(TC_APP_PACKAGES) : TC_APP_PACKAGES[i][1] = app_name_lower}
      partial == {i \in 1..Len(TC_APP_PACKAGES) :
                    \/ Contains(TC_APP_PACKAGES[i][1], app_name_lower)
                    \/ Contains(app_name_lower, TC_APP_PACKAGES[i][1])}
  IN  IF direct # {} THEN Some(TC_APP_PACKAGES[Min(direct)][2])
      ELSE IF partial # {} THEN Some(TC_APP_PACKAGES[Min(partial)][2])
      ELSE None

\* one line of the harness's element index (test-command.py 113)
TC_ElementLine(e, i) ==
  "[" \o IntToStr(Get(e, "index", i + 1)) \o "] " \o Get(e, "text", "")
      \o " (" \o Get(e, "className", "") \o ")"

\* test-command.py 113: elements[:20]
TC_RenderElements(elems, limit) ==
  [i \in 1..(IF Len(elems) < limit THEN Len(elems) ELSE limit) |->
     TC_ElementLine(elems[i], i - 1)]

\* do_search (test-command.py 40-89); the call that raises ends the run
do_search(keyword, elems0, env) ==
  LET begun == <<Msg("info", "Searching for", <<keyword>>)>>
      IsAffordance(e) ==
        /\ \/ Contains(Lower(Get(e, "text", "")), T_tim_kiem)
           \/ Contains(Lower(Get(e, "text", "")), "search")
        /\ \/ Contains(Lower(Get(e, "className", "")), "image")
           \/ Contains(Lower(Get(e, "className", "")), "button")
      st == FirstIndex(elems0, IsAffordance)
      e1 == env.s1.elements
      ed == FirstIndex(e1, LAMBDA e : Contains(Lower(Get(e, "className", "")), "edittext"))
      e2 == env.s2.elements
      sg == FirstIndex(e2, LAMBDA se :
              /\ Contains(Lower(Get(se, "text", "")), Lower(keyword))
              /\ Contains(Lower(Get(se, "className", "")), "textlayout"))
      sb == FirstIndex(e2, LAMBDA se :
              /\ Contains(Lower(Get(se, "text", "")), T_tim_kiem)
              /\ Contains(Lower(Get(se, "className", "")), "button"))
      snap0 == Snap("", elems0)
  IN  IF st = 0
        THEN Result(<< >>, begun \o <<Msg("fail", "Search button not found", << >>)>>,
                    FALSE, snap0)
      ELSE LET c1 == <<OpTap(Get(elems0[st], "index", 0))>>
               o1 == begun \o <<Msg("ok", "Opened search", << >>)>>
           IN
        IF env.failAt = 1 THEN Result(c1, begun, TRUE, snap0)
        ELSE IF env.failAt = 2 THEN Result(c1 \o <<OpGetState>>, o1, TRUE, snap0)
        ELSE IF ed = 0 THEN Result(c1 \o <<OpGetState>>, o1, FALSE, env.s1)
        ELSE LET c3 == c1 \o <<OpGetState, OpInputTextAt(keyword, Get(e1[ed], "index", 0))>>
                 o3 == o1 \o <<Msg("ok", "Typed", <<keyword>>)>>
             IN
          IF env.failAt = 3 THEN Result(c3, o1, TRUE, env.s1)
          ELSE IF env.failAt = 4 THEN Result(c3 \o <<OpGetState>>, o3, TRUE, env.s1)
          ELSE IF sg # 0
            THEN Result(c3 \o <<OpGetState, OpTap(Get(e2[sg], "index", 0))>>,
                        IF env.failAt = 5 THEN o3
                        ELSE o3 \o <<Msg("ok", "Selected", <<Get(e2[sg], "text", "")>>)>>,
                        env.failAt = 5, env.s2)
          ELSE IF sb # 0
            THEN Result(c3 \o <<OpGetState, OpTap(Get(e2[sb], "index", 0))>>,
                        IF env.failAt = 5 THEN o3
                        ELSE o3 \o <<Msg("ok", "Tapped search button", << >>)>>,
                        env.failAt = 5, env.s2)
          ELSE Result(c3 \o <<OpGetState>>, o3, FALSE, env.s2)

\* the branch of the harness's if/elif chain (test-command.py 163-205)
TC_Branch(r) ==
  LET reply_lower == Lower(r) IN
    IF StartsWith(reply_lower, "open_app") THEN "open_app"
    ELSE IF StartsWith(reply_lower, "tap") THEN "tap"
    ELSE IF reply_lower = "back" THEN "back"
    ELSE IF reply_lower = "home" THEN "home"
    ELSE IF Contains(reply_lower, "swipe") THEN "swipe"
    ELSE IF StartsWith(reply_lower, "search") THEN "search"
    ELSE "unrecognized"

\* the body of the branch taken (test-command.py 163-205)
TC_Execute(branch, r, snap, env) ==
  LET raised == env.failAt = 1
      cx == SCREEN_WIDTH \div 2
      cy == SCREEN_HEIGHT \div 2
      dist == SCREEN_HEIGHT \div 3
  IN
  CASE branch = "open_app" ->
         LET app_name == ArgAfterSpace(r)
             found == TC_find_app_package(app_name)
         IN  IF found.some
               THEN Result(<<OpStartApp(found.pkg)>>,
                           <<Msg("info", "Opening", <<app_name, found.pkg>>)>>
                             \o (IF raised THEN << >> ELSE <<Msg("ok", "Done", << >>)>>),
                           raised, snap)
               ELSE Result(<< >>, <<Msg("fail", "App not found", <<app_name>>)>>,
                           FALSE, snap)
    [] branch = "tap" ->
         LET arg == IndexArg(r) IN
           IF ~arg.ok THEN Result(<< >>, << >>, TRUE, snap)
           ELSE Result(<<OpTap(arg.val)>>,
                       <<Msg("info", "Tapping element", <<arg.val>>)>>
                         \o (IF raised THEN << >> ELSE <<Msg("ok", "Done", << >>)>>),
                       raised, snap)
    [] branch = "back" -> OneCall(OpBack, Msg("ok", "Pressed back", << >>), snap, env)
    [] branch = "home" ->
         OneCall(OpPressKey(KEYCODE_HOME), Msg("ok", "Pressed home", << >>), snap, env)
    [] branch = "swipe" ->
         IF Contains(Lower(r), "up")
           THEN OneCall(OpSwipe(cx, cy + dist, cx, cy - dist, SWIPE_MS),
                        Msg("ok", "Swiped up", << >>), snap, env)
         ELSE IF Contains(Lower(r), "down")
           THEN OneCall(OpSwipe(cx, cy - dist, cx, cy + dist, SWIPE_MS),
                        Msg("ok", "Swiped down", << >>), snap, env)
         ELSE Result(<< >>, << >>, FALSE, snap)
    [] branch = "search" ->
         IF ArgAfterSpace(r) # ""
           THEN LET d == do_search(ArgAfterSpace(r), snap.elements, env)
                IN  Result(d.ops, d.out, d.crashed, snap)
           ELSE Result(<< >>, <<Msg("fail", "No keyword provided", << >>)>>, FALSE, snap)
    [] OTHER -> Result(<< >>, <<Msg("reply", "Response:", <<r>>)>>, FALSE, snap)

\* get_state and the element index (test-command.py 107-113)
TC_BuildPrompt ==
  /\ program = "test-command"
  /\ pc = "tc_start"
  /\ \E snap \in Snapshots, failAt \in 0..1 :
       IF failAt = 1
         THEN /\ ops' = <<OpGetState>>
              /\ pc' = "Crashed"
              /\ UNCHANGED <<current_app, elements, elements_str>>
         ELSE /\ current_app' = snap.current_app
              /\ elements' = snap.elements
              /\ elements_str' = TC_RenderElements(snap.elements, HARNESS_LIMIT)
              /\ ops' = <<OpGetState>>
              /\ pc' = "tc_query"
  /\ UNCHANGED <<session, goal, response, reply, package, queries, handlers, out>>

\* the model call (test-command.py 147-158)
TC_QueryModel ==
  /\ program = "test-command"
  /\ pc = "tc_query"
  /\ queries' = queries + 1
  /\ \E resp \in ModelResponses :
       /\ response' = resp.kind
       /\ CASE resp.kind = "raise" -> pc' = "Crashed" /\ reply' = reply /\ out' = out
            [] resp.kind = "none" ->
                 /\ pc' = "tc_done"
                 /\ reply' = reply
                 /\ out' = out \o <<Msg("fail", "Empty response from Gemini", << >>)>>
            [] OTHER ->
                 /\ pc' = "tc_exec"
                 /\ reply' = FirstLine(resp.text)
                 /\ out' = out \o <<Msg("info", "Gemini reply:", <<FirstLine(resp.text)>>)>>
  /\ UNCHANGED <<session, goal, current_app, elements, elements_str, package, handlers,
                 ops>>

\* execution of the reply (test-command.py 160-205)
TC_ExecuteAction ==
  /\ program = "test-command"
  /\ pc = "tc_exec"
  /\ LET branch == TC_Branch(reply) IN
       \E env \in Envs(branch) :
         LET r == TC_Execute(branch, reply, Snap(current_app, elements), env) IN
           /\ ops' = ops \o r.ops
           /\ out' = out \o r.out
           /\ handlers' = IF branch = "unrecognized" THEN handlers
                          ELSE Append(handlers, branch)
           /\ package' = IF branch = "open_app"
                          THEN TC_find_app_package(ArgAfterSpace(reply))
                          ELSE package
           /\ pc' = IF r.crashed THEN "Crashed" ELSE "tc_done"
  /\ UNCHANGED <<session, goal, current_app, elements, elements_str, response, reply,
                 queries>>

Next ==
  \/ ReadInput
  \/ EndOfInput
  \/ BuildPrompt
  \/ QueryModel
  \/ ExecuteAction
  \/ TC_BuildPrompt
  \/ TC_QueryModel
  \/ TC_ExecuteAction

Spec == Init /\ [][Next]_vars

(***************************************************************************)
(* The App Resolver on its own: the open_app branch applied to one reply,  *)
(* over a wide range of names and installed sets.                          *)
(***************************************************************************)
RegistryKeys == {APP_PACKAGES[i][1] : i \in 1..Len(APP_PACKAGES)}

RegistryPackages == {APP_PACKAGES[i][2] : i \in 1..Len(APP_PACKAGES)}

\* names as a model may write them, each with its lower-cased, trimmed form
NormCases ==
  { [raw |-> " TikTok ", norm |-> "tiktok"],
    [raw |-> "FB", norm |-> "fb"],
    [raw |-> "YouTube Music\t", norm |-> "youtube music"],
    [raw |-> " " \o v_D_STROKE \o "i" \o v_ec_dot \o "n Tho" \o v_a_dot \o "i",
     norm |-> v_d_stroke \o "i" \o v_ec_dot \o "n tho" \o v_a_dot \o "i"],
    [raw |-> "  X", norm |-> "x"],
    [raw |-> "Tik", norm |-> "tik"],
    [raw |-> "Google ", norm |-> "google"],
    [raw |-> "COM.Example", norm |-> "com.example"],
    [raw |-> "Unknown App ", norm |-> "unknown app"],
    [raw |-> "  ", norm |-> ""],
    [raw |-> "zalo", norm |-> "zalo"] }

ResolverQueries ==
  RegistryKeys \cup {c.raw : c \in NormCases} \cup {c.norm : c \in NormCases}
    \cup {"zzz", "you", "com.google.android.youtube"}

\* first lines of replies that name the app q
ResolverReplies == {"open_app " \o q : q \in ResolverQueries} \cup {"open_app"}

\* installed sets: none loaded, one registry package, and sets holding
\* packages the registry does not name
ResolverInstalled ==
  { << >> } \cup { <<p>> : p \in RegistryPackages } \cup
  { <<"com.example.app">>,
    <<"com.example.app", "com.fb.lite">>,
    <<"com.google.android.apps.youtube.music", "com.google.android.youtube">>,
    <<"com.google.android.youtube", "com.google.android.apps.youtube.music">>,
    <<"com.netflix.mediaclient", "com.whatsapp">>,
    <<"com.example.TikTokLite", "com.zing.zalo">> }

ResolverInit ==
  /\ program = "chat-phone"
  /\ pc = "ParsingAction"
  /\ vision_mode = FALSE
  /\ INSTALLED_PACKAGES \in ResolverInstalled
  /\ SCREEN_WIDTH = 1080 /\ SCREEN_HEIGHT = 2400
  /\ goal = "open it"
  /\ current_app = ""
  /\ elements = << >>
  /\ elements_str = << >>
  /\ response = "text"
  /\ reply \in ResolverReplies
  /\ package = None
  /\ queries = 1
  /\ handlers = << >>
  /\ ops = <<OpGetState>>
  /\ out = << >>

ResolverNext == ExecuteAction

ResolverSpec == ResolverInit /\ [][ResolverNext]_vars

(***************************************************************************)
(* Properties.                                                             *)
(***************************************************************************)
\* the device-actuating calls of the turn, in order
ActuatingOps == SelectSeq(ops, Actuating)

\* the turn's reply went through classification and its branch has run
TurnExecuted ==
  program = "chat-phone" /\ response = "text" /\ pc \in {"AwaitingInput", "Crashed"}

Printed(mark, text) == \E i \in 1..Len(out) : out[i].mark = mark /\ out[i].text = text

\* C1: a reply whose first line starts with tap_video followed by a number N
\* is handled by the tap_video branch: it taps the N-th thumbnail of the
\* snapshot (by that element's index), or reports the number of thumbnails
\* visible when there are fewer than N; the tap branch never handles it.
C1_TapVideoHandledAsTapVideo ==
  (TurnExecuted /\ StartsWith(Lower(reply), "tap_video") /\ IndexArg(reply).ok) =>
    LET n == IndexArg(reply).val
        p == NthThumbnail(elements, n)
    IN  /\ handlers = <<"tap_video">>
        /\ IF p = 0
             THEN /\ ActuatingOps = << >>
                  /\ \E i \in 1..Len(out) :
                       /\ out[i].text = "Video not found"
                       /\ out[i].args = <<n, Cardinality(Thumbnails(elements))>>
             ELSE ActuatingOps = <<OpTap(Get(elements[p], "index", 0))>>

\* C2: in the interactive loop no fault of a device operation ends the
\* session: the loop never stops on an uncaught exception.
C2_NoFaultEndsSession == program = "chat-phone" => pc # "Crashed"

\* within a turn: at most one model call, at most one action branch, and a
\* branch only after the turn's model call returned a text
C3_TurnInv ==
  program = "chat-phone" =>
    /\ queries <= 1
    /\ Len(handlers) <= 1
    /\ handlers # << >> => queries = 1 /\ response = "text"
    /\ ActuatingOps # << >> => handlers # << >>

\* a step that starts a new turn (it resets the turn's counters) is taken at
\* AwaitingInput
C3_ReadStep ==
  (program = "chat-phone" /\ (goal' # goal \/ queries' < queries \/ Len(ops') < Len(ops)))
    => pc = "AwaitingInput"

\* C3: the loop is turn-based: a turn makes at most one model call and runs
\* at most one action branch, a branch runs only after the turn's model call
\* returned a text, and a new request is read (which is what resets the
\* turn) only when the loop is back at AwaitingInput, after every round-trip
\* of the turn's action.
C3_TurnBased == [](C3_TurnInv) /\ [][C3_ReadStep]_vars

\* C3 witness: a search flow with all its round-trips has finished in one turn
C3_Witness ==
  /\ TurnExecuted /\ pc = "AwaitingInput"
  /\ handlers = <<"search">>
  /\ Len(ActuatingOps) = 3
  /\ Len(SelectSeq(ops, LAMBDA o : o.op = "get_state")) = 3

\* C4: when the model call raises or returns no text, the turn is over: the
\* model was called once, no branch ran, no device-actuating call was made,
\* a diagnostic was printed and the loop is at AwaitingInput.
C4_NoReplyEndsTurn ==
  (program = "chat-phone" /\ response \in {"raise", "none"}) =>
    /\ pc = "AwaitingInput"
    /\ queries = 1
    /\ handlers = << >>
    /\ ActuatingOps = << >>
    /\ IF response = "raise" THEN Printed("fail", "API Error")
       ELSE Printed("info", "(No response - try again or rephrase)")

C4_Witness ==
  /\ program = "chat-phone" /\ response = "raise" /\ pc = "AwaitingInput"
  /\ ops = <<OpGetState, OpScreenshot>>

\* the 14 keyword tokens, as the specification lists them
KeywordTokens ==
  { "open_app", "start_app", "tap", "tap_video", "back", "home", "input_text", "swipe",
    "scroll", "long_press", "search", "select_tab", "open_comments", "close_comments" }

\* C8: a reply whose first line starts with none of the keyword tokens (case
\* ignored) is printed as it is, no branch runs and no device-actuating call
\* is made.
C8_UnrecognizedShownVerbatim ==
  (TurnExecuted /\ \A kw \in KeywordTokens : ~StartsWith(Lower(reply), kw)) =>
    /\ out = <<Msg("reply", "", <<reply>>)>>
    /\ handlers = << >>
    /\ ActuatingOps = << >>
    /\ pc = "AwaitingInput"

C8_Witness == TurnExecuted /\ reply = "The tap is open"

\* the invalid-command notices
InvalidNotices ==
  { "Invalid tap command", "Invalid long_press command", "Invalid tap_video command",
    "No search keyword provided" }

\* the first token of the reply, lower-cased ("" for an empty reply)
Verb(r) == IF SplitWs(r) = << >> THEN "" ELSE Lower(SplitWs(r)[1])

\* C9: "tap <n>" with an integer n makes exactly one device-actuating call,
\* tap(n); a tap, tap_video or long_press reply without an integer argument
\* and a search reply without a keyword print an invalid-command notice, make
\* no device-actuating call and leave the loop at AwaitingInput.
C9_TapArgument ==
  /\ (TurnExecuted /\ Verb(reply) = "tap" /\ IndexArg(reply).ok)
       => ActuatingOps = <<OpTap(IndexArg(reply).val)>>
  /\ (TurnExecuted /\ \/ Verb(reply) \in {"tap", "tap_video", "long_press"}
                         /\ ~IndexArg(reply).ok
                      \/ Verb(reply) = "search" /\ Len(SplitWs(reply)) = 1)
       => /\ \E i \in 1..Len(out) : out[i].mark = "fail" /\ out[i].text \in InvalidNotices
          /\ ActuatingOps = << >>
          /\ pc = "AwaitingInput"

C9_Witness ==
  /\ TurnExecuted /\ reply = "tap abc"
  /\ Printed("fail", "Invalid tap command")

\* an element index is right for a snapshot and a limit: one line for each of
\* the first min(limit, n) elements, in snapshot order
IndexOf(lines, elems, limit, Line(_, _)) ==
  /\ Len(lines) = IF Len(elems) < limit THEN Len(elems) ELSE limit
  /\ \A i \in 1..Len(lines) : lines[i] = Line(elems[i], i - 1)

\* C10: the element index given to the model has one line for exactly the
\* first min(limit, n) elements of the snapshot, in snapshot order, whatever
\* their index fields hold: limit 30 in the loop, 20 in the harness.
C10_ElementIndexBound ==
  /\ (program = "chat-phone" /\ pc \in {"AwaitingModelReply", "ParsingAction"})
       => IndexOf(elements_str, elements, 30, ElementLine)
  /\ (program = "test-command" /\ pc \in {"tc_query", "tc_exec"})
       => IndexOf(elements_str, elements, 20, TC_ElementLine)

C10_Witness ==
  /\ program = "chat-phone" /\ pc = "AwaitingModelReply"
  /\ Len(elements) > 30
  /\ Len(elements_str) = 30
  /\ Get(elements[1], "index", 0) > 30

\* the open_app branch has resolved the name app of the reply
Resolved(app) ==
  TurnExecuted /\ handlers = <<"open_app">> /\ ArgAfterSpace(reply) = app

Installed == Range(INSTALLED_PACKAGES)

\* C5: for every registry key, resolving the exact key returns the key's
\* package whenever the installed set is empty or holds that package.
C5_ExactKeyResolves ==
  \A i \in 1..Len(APP_PACKAGES) :
    (Resolved(APP_PACKAGES[i][1]) /\ (Installed = {} \/ APP_PACKAGES[i][2] \in Installed))
      => package = Some(APP_PACKAGES[i][2])

C5_Witness ==
  /\ Resolved("fb")
  /\ Installed = {"com.facebook.katana"}
  /\ package = Some("com.facebook.katana")

\* C6 as claimed: for every registry key, resolving the exact key returns
\* None whenever the installed set is non-empty and lacks the key's package.
C6_MissingPackageGivesNone ==
  \A i \in 1..Len(APP_PACKAGES) :
    (Resolved(APP_PACKAGES[i][1]) /\ Installed # {} /\ APP_PACKAGES[i][2] \notin Installed)
      => package = None

\* some registry entry whose key contains app, or is contained in it, has
\* an installed package
InstalledRelative(app) ==
  \E j \in 1..Len(APP_PACKAGES) :
    /\ Contains(APP_PACKAGES[j][1], app) \/ Contains(app, APP_PACKAGES[j][1])
    /\ APP_PACKAGES[j][2] \in Installed

\* some installed package identifier contains app
InstalledIdContains(app) == \E q \in Installed : Contains(Lower(q), app)

\* C6, amended: when the installed set is non-empty and lacks the key's
\* package, resolving the exact key never returns that package; it returns an
\* installed package when a registry entry whose key contains the key or is
\* contained in it has its package installed or when an installed package
\* identifier contains the key, and None otherwise.
C6_MissingPackageFallsThrough ==
  \A i \in 1..Len(APP_PACKAGES) :
    LET key == APP_PACKAGES[i][1] IN
      (Resolved(key) /\ Installed # {} /\ APP_PACKAGES[i][2] \notin Installed)
        => IF InstalledRelative(key) \/ InstalledIdContains(key)
             THEN package.some /\ package.pkg \in Installed
             ELSE package = None

C6_Witness ==
  /\ Resolved("youtube")
  /\ INSTALLED_PACKAGES = <<"com.google.android.apps.youtube.music">>
  /\ package = Some("com.google.android.apps.youtube.music")

\* C7: resolving a name gives what resolving its lower-cased, trimmed form
\* gives, for every installed set.
C7_CaseAndSpaceInsensitive ==
  \A c \in NormCases :
    Resolved(c.raw) => package = find_app_package(c.norm, INSTALLED_PACKAGES)

C7_Witness ==
  /\ Resolved(" TikTok ")
  /\ package = Some("com.ss.android.ugc.trill")
  /\ INSTALLED_PACKAGES = <<"com.ss.android.ugc.trill">>

\* the direction of a reply made of a swipe or scroll verb and one more word
Direction(r) ==
  LET toks == SplitWs(Lower(r)) IN
    IF Len(toks) = 2 /\ toks[1] \in {"swipe", "scroll"} THEN toks[2] ELSE ""

\* C11: on a screen of width W and height H, "swipe up" makes exactly one
\* gesture, from (W/2, H/2 + H/3) to (W/2, H/2 - H/3) in 300 ms (integer
\* division), and "swipe down" the gesture with the endpoints exchanged; on
\* 1080x2400 these are (540,2000)->(540,400) and back.  The feature tests
\* issue the same two gestures.
C11_SwipeGeometry ==
  LET W == SCREEN_WIDTH
      H == SCREEN_HEIGHT
      up == OpSwipe(W \div 2, (H \div 2) + (H \div 3), W \div 2, (H \div 2) - (H \div 3), 300)
      down == OpSwipe(W \div 2, (H \div 2) - (H \div 3), W \div 2, (H \div 2) + (H \div 3), 300)
  IN  /\ (TurnExecuted /\ Direction(reply) = "up") => ActuatingOps = <<up>>
      /\ (TurnExecuted /\ Direction(reply) = "down") => ActuatingOps = <<down>>
      /\ TF_SwipeUp(W, H) = up /\ TF_SwipeDown(W, H) = down
      /\ (W = 1080 /\ H = 2400) =>
           /\ up = OpSwipe(540, 2000, 540, 400, 300)
           /\ down = OpSwipe(540, 400, 540, 2000, 300)

C11_Witness ==
  /\ TurnExecuted /\ reply = "swipe up" /\ pc = "AwaitingInput"
  /\ SCREEN_WIDTH = 720 /\ SCREEN_HEIGHT = 1280
  /\ ActuatingOps = <<OpSwipe(360, 1066, 360, 214, 300)>>

\* the calls of get_state made in the turn, the one of the prompt included
GetStateCalls == Len(SelectSeq(ops, LAMBDA o : o.op = "get_state"))

\* a search flow ran without a fault up to the snapshot fetched after typing:
\* elements is that snapshot
SearchTyped ==
  /\ TurnExecuted /\ handlers = <<"search">>
  /\ GetStateCalls = 3
  /\ ~Printed("fail", "Search failed")

\* C12: after the keyword was typed and the snapshot fetched again, the first
\* element whose text contains the keyword and whose class is a text layout
\* is tapped, success is reported and nothing else is tapped; without such a
\* suggestion the first button whose text contains "search" or its Vietnamese
\* equivalent is tapped.
C12_SuggestionThenSubmit ==
  SearchTyped =>
    LET keyword == ArgAfterSpace(reply)
        Suggests(e) == /\ Contains(Lower(Get(e, "text", "")), Lower(keyword))
                       /\ Contains(Lower(Get(e, "className", "")), "textlayout")
        Submits(e) == /\ \/ Contains(Lower(Get(e, "text", "")), "search")
                          \/ Contains(Lower(Get(e, "text", "")), T_tim_kiem)
                      /\ Contains(Lower(Get(e, "className", "")), "button")
        sg == {i \in 1..Len(elements) : Suggests(elements[i])}
        sb == {i \in 1..Len(elements) : Submits(elements[i])}
    IN  IF sg # {}
          THEN /\ Len(ActuatingOps) = 3
               /\ ActuatingOps[3] = OpTap(Get(elements[Min(sg)], "index", 0))
               /\ Printed("ok", "Selected")
        ELSE sb # {} =>
               /\ Len(ActuatingOps) = 3
               /\ ActuatingOps[3] = OpTap(Get(elements[Min(sb)], "index", 0))

\* C13: when the open_app branch resolved a package, it makes no launch call
\* and reports "already in" if the current app identifier contains the
\* package, and makes exactly one launch call, with that package, otherwise.
C13_OpenAppIdempotent ==
  (TurnExecuted /\ handlers = <<"open_app">> /\ package.some) =>
    IF Contains(current_app, package.pkg)
      THEN /\ ActuatingOps = << >>
           /\ Printed("ok", "Already in")
      ELSE ActuatingOps = <<OpStartApp(package.pkg)>>

C13_Witness ==
  /\ TurnExecuted /\ reply = "OPEN_APP YouTube"
  /\ current_app = "com.google.android.youtube"
  /\ package = Some("com.google.android.youtube")
  /\ ActuatingOps = << >>
  /\ Printed("ok", "Already in")

\* C14: a reply that starts with a keyword token has produced an execution
\* report, a success message or a failure reason, when the loop is back at
\* AwaitingInput.
C14_ActionAlwaysReported ==
  (TurnExecuted /\ pc = "AwaitingInput"
     /\ \E kw \in KeywordTokens : StartsWith(Lower(reply), kw))
    => \E i \in 1..Len(out) : out[i].mark \in {"ok", "fail"}

\* C15: no tap and no long press of a turn targets an element past the first
\* 30 of the snapshot: a tap's index is not the index field of such an
\* element, and a long press is made at the coordinates of one of the first
\* 30 elements.
C15_UnrenderedUnreachable ==
  /\ (TurnExecuted /\ handlers = <<"tap">> /\ ActuatingOps # << >>) =>
       \A i \in 1..Len(elements) :
         (i > 30 /\ "index" \in DOMAIN elements[i]) =>
           ActuatingOps[1] # OpTap(elements[i].index)
  /\ (TurnExecuted /\ handlers = <<"long_press">> /\ ActuatingOps # << >>) =>
       \E i \in 1..Len(elements) :
         /\ i <= 30
         /\ LET x == Get(elements[i], "x", SCREEN_WIDTH \div 2)
                y == Get(elements[i], "y", SCREEN_HEIGHT \div 2)
            IN  ActuatingOps = <<OpSwipe(x, y, x, y, 1500)>>

\* the search branch of the loop or of the harness has run
SearchRan ==
  /\ handlers = <<"search">>
  /\ \/ TurnExecuted
     \/ program = "test-command" /\ pc \in {"tc_done", "Crashed"}

\* the device calls of the search flow: those after the calls of the prompt
SearchFlowOps == SubSeq(ops, (IF vision_mode THEN 3 ELSE 2), Len(ops))

\* the element is a suggestion for the keyword or a search button
SuggestionOrSubmit(e, keyword) ==
  \/ /\ Contains(Lower(Get(e, "text", "")), Lower(keyword))
     /\ Contains(Lower(Get(e, "className", "")), "textlayout")
  \/ /\ \/ Contains(Lower(Get(e, "text", "")), "search")
        \/ Contains(Lower(Get(e, "text", "")), T_tim_kiem)
     /\ Contains(Lower(Get(e, "className", "")), "button")

\* C16: the device calls of one search flow are a prefix of: tap, get_state,
\* input_text(keyword, clear), get_state, tap.  So the keyword is typed at
\* most once and only after a snapshot fetched after the first tap; in the
\* loop the last tap is on a suggestion or search button of the snapshot
\* fetched after typing; in the harness the first tap is on the first search
\* affordance of the snapshot of the prompt.
C16_SearchCallOrder ==
  SearchRan =>
    LET s == SearchFlowOps
        keyword == ArgAfterSpace(reply)
        aff == {i \in 1..Len(elements) :
                  /\ \/ Contains(Lower(Get(elements[i], "text", "")), "search")
                     \/ Contains(Lower(Get(elements[i], "text", "")), T_tim_kiem)
                  /\ \/ Contains(Lower(Get(elements[i], "className", "")), "image")
                     \/ Contains(Lower(Get(elements[i], "className", "")), "button")}
    IN  /\ Len(s) <= 5
        /\ Len(s) >= 1 => s[1].op = "tap"
        /\ Len(s) >= 2 => s[2] = [op |-> "get_state"]
        /\ Len(s) >= 3 =>
             /\ DOMAIN s[3] = {"op", "text", "index", "clear"}
             /\ s[3].op = "input_text" /\ s[3].text = keyword /\ s[3].clear
        /\ Len(s) >= 4 => s[4] = [op |-> "get_state"]
        /\ Len(s) = 5 =>
             /\ s[5].op = "tap"
             /\ program = "chat-phone" =>
                  \E i \in 1..Len(elements) :
                    /\ SuggestionOrSubmit(elements[i], keyword)
                    /\ s[5] = OpTap(Get(elements[i], "index", 0))
        /\ (program = "test-command" /\ Len(s) >= 1) =>
             aff # {} /\ s[1] = OpTap(Get(elements[Min(aff)], "index", 0))

C16_Witness ==
  /\ TurnExecuted /\ reply = "search shoes" /\ vision_mode
  /\ SearchFlowOps = <<OpTap(7), OpGetState, OpInputTextAt("shoes", 4), OpGetState,
                       OpTap(6)>>

\* positions of the search affordances of the elements held: text with
\* "search" or its Vietnamese equivalent, class with "image" or "button"
Affordances ==
  {i \in 1..Len(elements) :
     /\ \/ Contains(Lower(Get(elements[i], "text", "")), "search")
        \/ Contains(Lower(Get(elements[i], "text", "")), T_tim_kiem)
     /\ \/ Contains(Lower(Get(elements[i], "className", "")), "image")
        \/ Contains(Lower(Get(elements[i], "className", "")), "button")}

\* elements is still the snapshot the search flow started on: always in the
\* harness; in the loop until the flow's first get_state has returned
OnFirstSnapshot ==
  \/ program = "test-command"
  \/ SearchFlowOps = << >>
  \/ Len(SearchFlowOps) <= 2 /\ Printed("fail", "Search failed")

\* C17: step 1 of a search with a keyword taps the first search affordance
\* of the snapshot, by its index field; when the snapshot has none, "search
\* button not found" is reported and the flow makes no device call at all.
C17_FirstAffordanceOrNone ==
  (SearchRan /\ ArgAfterSpace(reply) # "") =>
    /\ OnFirstSnapshot =>
         IF Affordances = {}
           THEN /\ SearchFlowOps = << >>
                /\ Printed("fail", "Search button not found")
           ELSE /\ SearchFlowOps # << >>
                /\ SearchFlowOps[1] = OpTap(Get(elements[Min(Affordances)], "index", 0))
                /\ ~Printed("fail", "Search button not found")
    /\ Printed("fail", "Search button not found") => SearchFlowOps = << >>

C17_Witness ==
  /\ program = "test-command" /\ pc = "tc_done" /\ reply = "search shoes"
  /\ elements = FeedElements
  /\ Cardinality(Affordances) = 2
  /\ ActuatingOps[1] = OpTap(7)

\* positions of the text-input fields of the elements held
InputFields ==
  {i \in 1..Len(elements) : Contains(Lower(Get(elements[i], "className", "")), "edittext")}

\* C18: in the loop, a search flow whose snapshot after the first tap holds
\* no text-input field stops there: nothing is typed, no further snapshot is
\* fetched, nothing more is tapped and no failure is reported.  So a flow that
\* ended without a fault after its first get_state holds a snapshot without
\* input field and has reported no failure, and a flow that typed did so into
\* the first input field of that snapshot.
C18_NoInputFieldStopsSilently ==
  (SearchRan /\ TurnExecuted /\ ArgAfterSpace(reply) # "") =>
    LET s == SearchFlowOps
        faulted == Printed("fail", "Search failed")
    IN  /\ (Len(s) = 2 /\ ~faulted) =>
             /\ InputFields = {}
             /\ \A i \in 1..Len(out) : out[i].mark # "fail"
             /\ out[Len(out)] = Msg("ok", "Opened search", << >>)
             /\ pc = "AwaitingInput"
        /\ (Len(s) \in {3, 4} /\ faulted) =>
             /\ InputFields # {}
             /\ s[3] = OpInputTextAt(ArgAfterSpace(reply),
                                     Get(elements[Min(InputFields)], "index", 0))

C18_Witness ==
  /\ TurnExecuted /\ reply = "search shoes" /\ pc = "AwaitingInput"
  /\ SearchFlowOps = <<OpTap(7), OpGetState>>
  /\ elements = FeedElements
  /\ InputFields = {}
  /\ out[Len(out)] = Msg("ok", "Opened search", << >>)

\* positions of the elements whose index field is k
WithIndex(k) ==
  {i \in 1..Len(elements) : "index" \in DOMAIN elements[i] /\ elements[i].index = k}

\* C19: "long_press k" makes one drag without displacement, 1500 ms long, at
\* the coordinates of the element whose index field is k, the element that
\* "tap k" addresses, and not at those of the element at position k.
C19_LongPressByIndexField ==
  (TurnExecuted /\ handlers = <<"long_press">> /\ IndexArg(reply).ok
     /\ WithIndex(IndexArg(reply).val) # {}) =>
    LET e == elements[Min(WithIndex(IndexArg(reply).val))]
        x == Get(e, "x", SCREEN_WIDTH \div 2)
        y == Get(e, "y", SCREEN_HEIGHT \div 2)
    IN  ActuatingOps = <<OpSwipe(x, y, x, y, 1500)>>

\* C20: "long_press k" with k at least the number of elements, or negative,
\* makes no gesture, reports that the element was not found and leaves the
\* loop running.
C20_LongPressOutOfRange ==
  (TurnExecuted /\ handlers = <<"long_press">> /\ IndexArg(reply).ok
     /\ (IndexArg(reply).val >= Len(elements) \/ IndexArg(reply).val < 0)) =>
    /\ ActuatingOps = << >>
    /\ Printed("fail", "Element not found")
    /\ pc = "AwaitingInput"

\* the description of an element as the comments branches read it: its
\* contentDescription, or its text when that is missing or empty
Description(e) ==
  IF "contentDescription" \in DOMAIN e /\ e.contentDescription # ""
    THEN e.contentDescription
    ELSE IF "text" \in DOMAIN e THEN e.text ELSE ""

\* positions of the elements whose description holds a close token
Closers ==
  {i \in 1..Len(elements) :
     \/ Contains(Lower(Description(elements[i])), "close")
     \/ Contains(Lower(Description(elements[i])), T_dong)}

\* C21: close_comments makes exactly one device call: a tap on the first
\* element whose description (its text, when it has none) holds a close
\* token, by its index field, or one back when there is no such element; the
\* back is reported as a success, never as a failure.
C21_CloseCommentsOneCall ==
  (TurnExecuted /\ handlers = <<"close_comments">>) =>
    /\ IF Closers # {}
         THEN ActuatingOps = <<OpTap(Get(elements[Min(Closers)], "index", 0))>>
         ELSE /\ ActuatingOps = <<OpBack>>
              /\ \A i \in 1..Len(out) : out[i].mark # "fail"
              /\ pc = "AwaitingInput" => Printed("ok", "Closed comments (back)")
    /\ GetStateCalls = 1

C21_Witness ==
  /\ TurnExecuted /\ reply = "close_comments" /\ pc = "AwaitingInput"
  /\ elements = GridElements
  /\ ActuatingOps = <<OpBack>>
  /\ Printed("ok", "Closed comments (back)")

\* positions of the elements whose description holds the comments token and
\* the read token
StrictComments ==
  {i \in 1..Len(elements) :
     /\ Contains(Lower(Description(elements[i])), T_binh_luan)
     /\ Contains(Lower(Description(elements[i])), T_doc)}

\* positions of the elements whose description holds a comments token
LooseComments ==
  {i \in 1..Len(elements) :
     \/ Contains(Lower(Description(elements[i])), "comment")
     \/ Contains(Lower(Description(elements[i])), T_binh_luan)}

ScreenshotCalls == Len(SelectSeq(ops, LAMBDA o : o.op = "take_screenshot"))

\* a screenshot is taken only with the flag on, and a turn whose prompt was
\* built took one exactly when the flag is on
C23_ScreenshotInv ==
  program = "chat-phone" =>
    /\ ScreenshotCalls <= 1
    /\ ScreenshotCalls = 1 => vision_mode
    /\ (pc \in {"AwaitingModelReply", "ParsingAction"} \/ queries >= 1) =>
         ScreenshotCalls = IF vision_mode THEN 1 ELSE 0

\* what a step of the loop does with the flag and with the commands of the
\* loop head
C23_Step ==
  program = "chat-phone" =>
    /\ pc # "Shutdown"
    /\ vision_mode' # vision_mode =>
         /\ pc = "AwaitingInput"
         /\ Lower(goal') = IF vision_mode' THEN "vision on" ELSE "vision off"
    /\ (pc = "AwaitingInput" /\ Lower(goal') \in {"vision on", "vision off"}) =>
         /\ vision_mode' = (Lower(goal') = "vision on")
         /\ pc' = "AwaitingInput"
         /\ ops' = << >> /\ queries' = 0 /\ handlers' = << >>
         /\ elements' = elements /\ current_app' = current_app
    /\ (pc = "AwaitingInput" /\ (Lower(goal') = "quit" \/ out' = <<Msg("info", "Bye!", << >>)>>)) =>
         /\ pc' = "Shutdown"
         /\ ops' = << >> /\ queries' = 0

\* C23: "vision on" and "vision off" at AwaitingInput only set the flag and
\* stay at AwaitingInput, with no snapshot, no model call and no device call;
\* "quit", an interrupt and the end of input lead to Shutdown, which is
\* terminal; nothing else changes the flag; a turn takes a screenshot exactly
\* when the flag is on.
C23_VisionFrame == [](C23_ScreenshotInv) /\ [][C23_Step]_vars

C23_Witness ==
  /\ program = "chat-phone" /\ pc = "AwaitingInput"
  /\ goal = "Vision OFF" /\ ~vision_mode
  /\ out = <<Msg("info", "Vision: OFF", << >>)>>
  /\ ops = << >>

\* the open_app branch has run
OpenAppRan == TurnExecuted /\ handlers = <<"open_app">>

\* the packages the resolver rejected for the reply's argument: those of the
\* registry entries whose key is the query, contains it or is contained in
\* it, while the installed set is loaded and does not hold the package
RejectedPackages ==
  LET q == Strip(Lower(ArgAfterSpace(reply))) IN
    {APP_PACKAGES[i][2] : i \in {j \in 1..Len(APP_PACKAGES) :
        /\ Contains(APP_PACKAGES[j][1], q) \/ Contains(q, APP_PACKAGES[j][1])
        /\ Installed # {} /\ APP_PACKAGES[j][2] \notin Installed}}

\* on a resolver miss exactly one launch call is made, with the argument as
\* written; it is reported as opened or, when it raised, as not found, and
\* the loop goes on
C24_MissLaunchesLiteral ==
  (OpenAppRan /\ package = None) =>
    /\ ActuatingOps = <<OpStartApp(ArgAfterSpace(reply))>>
    /\ pc = "AwaitingInput"
    /\ Printed("ok", "Opened") # Printed("fail", "App not found")

\* C24 as claimed: on a resolver miss exactly one launch call is made with
\* the literal argument, a raise is reported as not found and the loop goes
\* on; and no launch is ever made with a package the resolver rejected
\* because it is not installed.
C24_NeverLaunchesRejected ==
  /\ C24_MissLaunchesLiteral
  /\ OpenAppRan =>
       \A i \in 1..Len(ActuatingOps) :
         ActuatingOps[i].op = "start_app" => ActuatingOps[i].package \notin RejectedPackages

\* C24, amended: as claimed, except that a rejected package is launched when
\* the argument itself is that package's identifier and the resolver found
\* nothing: the literal launch.
C24_LaunchesRejectedOnlyAsLiteral ==
  /\ C24_MissLaunchesLiteral
  /\ OpenAppRan =>
       \A i \in 1..Len(ActuatingOps) :
         (ActuatingOps[i].op = "start_app" /\ ActuatingOps[i].package \in RejectedPackages)
           => package = None /\ ActuatingOps[i].package = ArgAfterSpace(reply)

C24_Witness ==
  /\ OpenAppRan /\ reply = "open_app tiktok"
  /\ INSTALLED_PACKAGES = <<"com.zing.zalo">>
  /\ package = None
  /\ "com.ss.android.ugc.trill" \in RejectedPackages
  /\ ActuatingOps = <<OpStartApp("tiktok")>>
  /\ Printed("fail", "App not found")

\* C25: find_app_package takes its steps in order, the first success wins:
\* the package of the registry entry whose key is the query, if it passes the
\* installed filter; otherwise the package of the first registry entry, in
\* registry order, whose key contains the query or is contained in it and
\* whose package passes the filter; otherwise an installed package whose
\* identifier contains the query; None only when all three find nothing.
C25_ResolverStepOrder ==
  OpenAppRan =>
    LET q == Strip(Lower(ArgAfterSpace(reply)))
        Passes(p) == Installed = {} \/ p \in Installed
        exact == {i \in 1..Len(APP_PACKAGES) :
                    APP_PACKAGES[i][1] = q /\ Passes(APP_PACKAGES[i][2])}
        partial == {i \in 1..Len(APP_PACKAGES) :
                      /\ Contains(APP_PACKAGES[i][1], q) \/ Contains(q, APP_PACKAGES[i][1])
                      /\ Passes(APP_PACKAGES[i][2])}
        byId == {p \in Installed : Contains(Lower(p), q)}
    IN  IF exact # {}
          THEN \E i \in exact : package = [some |-> TRUE, pkg |-> APP_PACKAGES[i][2]]
        ELSE IF partial # {}
          THEN \E i \in partial :
                 /\ \A j \in partial : i <= j
                 /\ package = [some |-> TRUE, pkg |-> APP_PACKAGES[i][2]]
        ELSE IF byId # {}
          THEN package.some /\ package.pkg \in byId
        ELSE package = [some |-> FALSE, pkg |-> ""]

C25_Witness ==
  /\ OpenAppRan /\ reply = "open_app youtube music"
  /\ Installed = {}
  /\ package = Some("com.google.android.apps.youtube.music")

\* the device answers of a search flow in which no call raises: the two
\* snapshots get_state returns
QuietSearchEnvs == {env \in SearchEnvs : env.failAt = 0}

\* C26: for the same keyword and the same snapshots returned by the device,
\* and when no call raises, do_search of the harness and the search branch
\* of the loop make the same device calls with the same arguments: whatever
\* answers explain the calls a finished harness search has made, the loop's
\* branch makes these calls on them; and for a search reply about to be
\* executed, both make the same calls on every pair of answers.
C26_SearchFlowsAgree ==
  /\ (program = "test-command" /\ pc = "tc_done" /\ handlers = <<"search">>
        /\ ArgAfterSpace(reply) # "") =>
       \A env \in QuietSearchEnvs :
         do_search(ArgAfterSpace(reply), elements, env).ops = SearchFlowOps
           => HandleSearch(reply, Snap(current_app, elements), env).ops = SearchFlowOps
  /\ (pc \in {"ParsingAction", "tc_exec"} /\ StartsWith(Lower(reply), "search")
        /\ ArgAfterSpace(reply) # "") =>
       \A env \in QuietSearchEnvs :
         HandleSearch(reply, Snap(current_app, elements), env).ops
           = do_search(ArgAfterSpace(reply), elements, env).ops

C26_Witness ==
  /\ program = "test-command" /\ pc = "tc_done" /\ reply = "search shoes"
  /\ elements = FeedElements
  /\ SearchFlowOps = <<OpTap(7), OpGetState, OpInputTextAt("shoes", 4), OpGetState,
                       OpTap(6)>>
  /\ \E env \in QuietSearchEnvs :
       HandleSearch(reply, Snap(current_app, elements), env).ops = SearchFlowOps

\* C27: every gesture of the swipe / scroll branch, in each of the four
\* directions and on every screen, has both endpoints inside the screen,
\* [0, width] x [0, height], and a horizontal gesture moves a third of the
\* width to each side of the centre.
C27_SwipeInsideScreen ==
  (TurnExecuted /\ handlers = <<"swipe">>) =>
    \A i \in 1..Len(ActuatingOps) :
      LET g == ActuatingOps[i] IN
        /\ g.op = "swipe"
        /\ 0 <= g.x1 /\ g.x1 <= SCREEN_WIDTH /\ 0 <= g.x2 /\ g.x2 <= SCREEN_WIDTH
        /\ 0 <= g.y1 /\ g.y1 <= SCREEN_HEIGHT /\ 0 <= g.y2 /\ g.y2 <= SCREEN_HEIGHT
        /\ g.x1 # g.x2 =>
             {g.x1, g.x2} = {(SCREEN_WIDTH \div 2) - (SCREEN_WIDTH \div 3),
                             (SCREEN_WIDTH \div 2) + (SCREEN_WIDTH \div 3)}

\* C28: an open_app or start_app reply that names no app selects no registry
\* entry: the resolver returns None for the empty query and no package of the
\* registry is launched.
C28_EmptyNameSelectsNothing ==
  (OpenAppRan /\ Strip(ArgAfterSpace(reply)) = "") =>
    /\ package = None
    /\ \A i \in 1..Len(ActuatingOps) :
         ActuatingOps[i].op = "start_app" => ActuatingOps[i].package \notin RegistryPackages

=============================================================================
